---- MODULE Spec2Model ----
(***************************************************************************)
(* Model of the CLTE evaluation harness: the resumable evaluation loops of *)
(* task1 / task2, the two-stage teacher/student pipeline of task3, the     *)
(* JSONL storage they checkpoint into, and the answer extraction and       *)
(* accuracy aggregation they score with.                                   *)
(*                                                                         *)
(* Python values are modelled as follows.  A str is a sequence of tokens   *)
(* (one token per character, or per literal marker such as "\\boxed{"),    *)
(* wrapped as Str(s); None is PyNone.  A dict with literal keys is a TLA+  *)
(* function from key to value.  A list of dicts is a sequence of heap      *)
(* addresses, because the loops rely on (and suffer from) object identity. *)
(***************************************************************************)
EXTENDS Integers, Sequences, FiniteSets, TLC

(* ------------------------------ bounds --------------------------------- *)
MaxSamples == 2
MaxTestTime == 2
NumStudents == 2
\* calls of model.chat (returning or raising) in one behaviour
MaxChats == 6
\* the functions called on their own: longest list of predictions or answers,
\* most records given to an aggregator, most spans in a text
MaxLen == 3
MaxRecords == 3
MaxParts == 3
\* failed or interrupted appends in one behaviour
MaxFaults == 1
\* generations a loop started on existing output files has left to make
MaxOutstanding == 3

(* --------------------------- Python values ----------------------------- *)
Str(s) == [t |-> "str", v |-> s]
PyNone == [t |-> "none", v |-> <<>>]
IsStr(x) == x.t = "str"
\* a nested list, and a nested dict as its (key, value) pairs in insertion order
PyList(s) == [t |-> "list", v |-> s]
PyDict(s) == [t |-> "dict", v |-> s]

SetKey(d, k, x) == [y \in (DOMAIN d) \cup {k} |-> IF y = k THEN x ELSE d[y]]

Range(s) == {s[i] : i \in 1..Len(s)}

RECURSIVE GCD(_, _)
GCD(a, b) == IF b = 0 THEN a ELSE GCD(b, a % b)

(* a Python float that is the quotient of two naturals, kept exact *)
Ratio(n, d) == LET g == GCD(n, d) IN <<n \div g, d \div g>>
RatAdd(x, y) == Ratio(x[1] * y[2] + y[1] * x[2], x[2] * y[2])
RatDivInt(x, k) == Ratio(x[1], x[2] * k)

(* ------------------------- utils/file_utils.py ------------------------- *)
RECURSIVE JsonOf(_)
JsonOf(x) == CASE x.t = "none" -> [t |-> "null", v |-> <<>>]
               [] x.t = "str" -> [t |-> "string", v |-> x.v]
               [] x.t = "list" -> [t |-> "array", v |-> [i \in 1..Len(x.v) |-> JsonOf(x.v[i])]]
               [] x.t = "dict" -> [t |-> "object",
                                   v |-> [i \in 1..Len(x.v) |-> <<x.v[i][1], JsonOf(x.v[i][2])>>]]
RECURSIVE PyOf(_)
PyOf(j) == CASE j.t = "null" -> [t |-> "none", v |-> <<>>]
             [] j.t = "string" -> [t |-> "str", v |-> j.v]
             [] j.t = "array" -> [t |-> "list", v |-> [i \in 1..Len(j.v) |-> PyOf(j.v[i])]]
             [] j.t = "object" -> [t |-> "dict",
                                   v |-> [i \in 1..Len(j.v) |-> <<j.v[i][1], PyOf(j.v[i][2])>>]]

(* json.dumps(item, ensure_ascii=False) + '\n': one complete line *)
json_dumps(item) == [k \in DOMAIN item |-> JsonOf(item[k])]
json_loads(line) == [k \in DOMAIN line |-> PyOf(line[k])]

\* A line of a file is a record's line, or a damaged line: one whose write
\* stopped inside the record's JSON text ("cut") or between the JSON text and
\* its newline ("unterminated"), or one on which a later record was written
\* after such a line ("glued").  An unterminated line parses as its record;
\* a cut or a glued line does not parse.
DamagedLine(kind, item) == [torn |-> kind, line |-> json_dumps(item)]
IsDamaged(line) == "torn" \in DOMAIN line
NoDamagedLine(file) == \A i \in 1..Len(file) : ~IsDamaged(file[i])
EndsUnterminated(file) ==
    file # <<>> /\ IsDamaged(file[Len(file)])
                /\ file[Len(file)].torn \in {"cut", "unterminated"}

\* json.loads succeeds on every line of the file
Loadable(file) == \A i \in 1..Len(file) : IsDamaged(file[i]) => file[i].torn = "unterminated"

(* load_jsonl: every line parsed, in file order *)
load_jsonl(file) ==
    [i \in 1..Len(file) |-> json_loads(IF IsDamaged(file[i]) THEN file[i].line ELSE file[i])]

(* append_to_jsonl: the file opened in 'a' mode gets one more line; after a
   line without its newline the record lands on that line *)
append_to_jsonl(item, file) ==
    IF EndsUnterminated(file)
    THEN [file EXCEPT ![Len(file)] = [torn |-> "glued", line |-> @.line]]
    ELSE Append(file, json_dumps(item))

\* a write that stops before the end of the line
write_part(item, file, kind) == Append(file, DamagedLine(kind, item))

(* --------------------------- utils/metrics.py -------------------------- *)
Letters == {"A", "B", "C", "D"}
Whitespace == {" ", "\n"}
BOXED == "\\boxed{"
TEXT == "\\text{"

Tok(text, i) == IF i >= 1 /\ i <= Len(text) THEN text[i] ELSE "<eof>"

RECURSIVE SkipWs(_, _)
SkipWs(text, i) == IF Tok(text, i) \in Whitespace THEN SkipWs(text, i + 1) ELSE i

RECURSIVE FindClose(_, _, _)
(* first index >= i holding "}" with no token of stop before it, else 0 *)
FindClose(text, i, stop) ==
    IF i > Len(text) \/ text[i] \in stop THEN 0
    ELSE IF text[i] = "}" THEN i
    ELSE FindClose(text, i + 1, stop)

NoMatch == [end |-> 0, g2 |-> <<>>, g3 |-> <<>>, g4 |-> <<>>]

\* first alternative: optional whitespace, a text wrapper whose content runs to
\* the first closing brace, then the closing brace of the boxed command
BoxedAlt1(text, p) ==
    LET j == SkipWs(text, p + 1)
        k == FindClose(text, j + 1, {})
    IN IF Tok(text, j) = TEXT /\ k > 0 /\ Tok(text, k + 1) = "}"
       THEN [end |-> k + 1, g2 |-> SubSeq(text, j + 1, k - 1), g3 |-> <<>>, g4 |-> <<>>]
       ELSE NoMatch

\* second alternative: optional whitespace, optional opening brace, a letter,
\* a dot or whitespace, a lazy run that cannot cross a newline, up to two
\* optional closing braces (the first one inside the group), a closing brace
BoxedAlt2(text, p) ==
    LET j0 == SkipWs(text, p + 1)
        j == IF Tok(text, j0) = "{" THEN j0 + 1 ELSE j0
        e == FindClose(text, j + 2, {"\n"})
    IN IF Tok(text, j) \in Letters /\ Tok(text, j + 1) \in {".", " ", "\n"} /\ e > 0
       THEN IF Tok(text, e + 1) = "}" /\ Tok(text, e + 2) = "}"
            THEN [end |-> e + 2, g2 |-> <<>>, g3 |-> SubSeq(text, j, e), g4 |-> <<>>]
            ELSE IF Tok(text, e + 1) = "}"
            THEN [end |-> e + 1, g2 |-> <<>>, g3 |-> SubSeq(text, j, e), g4 |-> <<>>]
            ELSE [end |-> e, g2 |-> <<>>, g3 |-> SubSeq(text, j, e - 1), g4 |-> <<>>]
       ELSE NoMatch

\* third alternative: a bare letter between optional whitespace
BoxedAlt3(text, p) ==
    LET j == SkipWs(text, p + 1)
        k == SkipWs(text, j + 1)
    IN IF Tok(text, j) \in Letters /\ Tok(text, k) = "}"
       THEN [end |-> k, g2 |-> <<>>, g3 |-> <<>>, g4 |-> <<text[j]>>]
       ELSE NoMatch

\* mutant: the alternatives are tried without the boxed command before them
BoxedMatchAtAnywhere(text, p) ==
    IF BoxedAlt1(text, p).end > 0 THEN BoxedAlt1(text, p)
    ELSE IF BoxedAlt2(text, p).end > 0 THEN BoxedAlt2(text, p)
    ELSE BoxedAlt3(text, p)

(* one attempt of the pattern at position p: the alternatives in order *)
BoxedMatchAt(text, p) ==
    IF Tok(text, p) # BOXED THEN NoMatch
    ELSE IF BoxedAlt1(text, p).end > 0 THEN BoxedAlt1(text, p)
    ELSE IF BoxedAlt2(text, p).end > 0 THEN BoxedAlt2(text, p)
    ELSE BoxedAlt3(text, p)

RECURSIVE BoxedFindAll(_, _)
(* re.findall: leftmost matches, scanning on after the end of each match *)
BoxedFindAll(text, p) ==
    IF p > Len(text) THEN <<>>
    ELSE LET m == BoxedMatchAt(text, p)
         IN IF m.end > 0 THEN <<m>> \o BoxedFindAll(text, m.end + 1)
            ELSE BoxedFindAll(text, p + 1)

RECURSIVE StripLeft(_)
StripLeft(s) == IF s # <<>> /\ Head(s) \in Whitespace THEN StripLeft(Tail(s)) ELSE s
RECURSIVE StripRight(_)
StripRight(s) == IF s # <<>> /\ s[Len(s)] \in Whitespace
                 THEN StripRight(SubSeq(s, 1, Len(s) - 1)) ELSE s
Strip(s) == StripRight(StripLeft(s))

MatchContent(m) == IF m.g2 # <<>> THEN m.g2 ELSE IF m.g3 # <<>> THEN m.g3 ELSE m.g4

RECURSIVE ExtractedOptions(_)
ExtractedOptions(matches) ==
    IF matches = <<>> THEN <<>>
    ELSE LET content == Strip(MatchContent(Head(matches)))
         IN (IF content # <<>> THEN <<content>> ELSE <<>>) \o ExtractedOptions(Tail(matches))

\* mutant: the first extracted option is used
extract_first_boxed_answer(response) ==
    LET extracted_options == ExtractedOptions(BoxedFindAll(response.v, 1))
        first_boxed == extracted_options[1]
    IN IF extracted_options = <<>> THEN PyNone
       ELSE IF Len(first_boxed) = 1 /\ first_boxed[1] \in Letters THEN Str(first_boxed)
       ELSE IF Len(first_boxed) >= 2 /\ first_boxed[1] \in Letters
               /\ first_boxed[2] \in {".", " ", "\n"}
       THEN Str(<<first_boxed[1]>>)
       ELSE PyNone

extract_last_boxed_answer(response) ==
    LET extracted_options == ExtractedOptions(BoxedFindAll(response.v, 1))
        last_boxed == extracted_options[Len(extracted_options)]
    IN IF extracted_options = <<>> THEN PyNone
       ELSE IF Len(last_boxed) = 1 /\ last_boxed[1] \in Letters THEN Str(last_boxed)
       ELSE IF Len(last_boxed) >= 2 /\ last_boxed[1] \in Letters
               /\ last_boxed[2] \in {".", " ", "\n"}
               \* the trailing .* of the anchored match always succeeds
       THEN Str(<<last_boxed[1]>>)
       ELSE PyNone

UpperTok(c) == CASE c = "a" -> "A" [] c = "b" -> "B" [] c = "c" -> "C" [] c = "d" -> "D"
                 [] OTHER -> c
\* mutant: upper() leaves the text as it is
UpperAsIs(s) == s
Upper(s) == [i \in 1..Len(s) |-> UpperTok(s[i])]

\* mutant: an absent prediction is counted as correct
RECURSIVE CountCorrectAbsentToo(_, _)
CountCorrectAbsentToo(predictions, answers) ==
    IF predictions = <<>> \/ answers = <<>> THEN 0
    ELSE (IF Head(predictions) = PyNone
             \/ Upper(Head(predictions).v) = Upper(Head(answers).v) THEN 1 ELSE 0)
         + CountCorrectAbsentToo(Tail(predictions), Tail(answers))

RECURSIVE CountCorrect(_, _)
CountCorrect(predictions, answers) ==
    IF predictions = <<>> \/ answers = <<>> THEN 0
    ELSE (IF Head(predictions) # PyNone
             /\ Upper(Head(predictions).v) = Upper(Head(answers).v) THEN 1 ELSE 0)
         + CountCorrect(Tail(predictions), Tail(answers))

ValueError == <<"ValueError">>

\* mutant: no length test, zip stops at the shorter list
calculate_accuracy_zip(predictions, answers) ==
    IF Len(predictions) > 0
    THEN Ratio(CountCorrect(predictions, answers), Len(predictions))
    ELSE <<0, 1>>

calculate_accuracy(predictions, answers) ==
    IF Len(predictions) # Len(answers) THEN ValueError
    ELSE IF Len(predictions) > 0
         THEN Ratio(CountCorrect(predictions, answers), Len(predictions))
         ELSE <<0, 1>>

\* ---- knowledge extraction ----
\* the token for three backquotes followed by json, and for three backquotes
FENCE_JSON == "<fence>json"
FENCE == "<fence>"
KNOWLEDGE_KEY == "\"knowledge\":"
QUOTE == "\""

RECURSIVE FindTok(_, _, _)
(* first index >= i whose token is in toks, else 0 *)
FindTok(text, i, toks) ==
    IF i > Len(text) THEN 0
    ELSE IF text[i] \in toks THEN i
    ELSE FindTok(text, i + 1, toks)

RECURSIVE FindFencedClose(_, _)
(* first "}" at or after i that is followed by optional whitespace and a fence *)
FindFencedClose(text, i) ==
    LET e == FindTok(text, i, {"}"})
    IN IF e = 0 THEN 0
       ELSE IF Tok(text, SkipWs(text, e + 1)) \in {FENCE, FENCE_JSON} THEN e
       ELSE FindFencedClose(text, e + 1)

NoSpan == [end |-> 0, g |-> <<>>]

\* pattern_codeblock, DOTALL: the json fence, whitespace, a brace, a lazy run up
\* to the knowledge key, a lazy run up to a closing brace, whitespace, a fence
CodeblockMatchAt(text, p) ==
    LET j == SkipWs(text, p + 1)
        k == FindTok(text, j + 1, {KNOWLEDGE_KEY})
        e == IF k = 0 THEN 0 ELSE FindFencedClose(text, k + 1)
    IN IF Tok(text, p) = FENCE_JSON /\ Tok(text, j) = "{" /\ e > 0
       THEN [end |-> SkipWs(text, e + 1), g |-> SubSeq(text, j, e)]
       ELSE NoSpan

\* pattern_multiline, DOTALL: a brace, whitespace, the knowledge key, a lazy run
\* up to the first closing brace
MultilineMatchAt(text, p) ==
    LET j == SkipWs(text, p + 1)
        e == FindTok(text, j + 1, {"}"})
    IN IF Tok(text, p) = "{" /\ Tok(text, j) = KNOWLEDGE_KEY /\ e > 0
       THEN [end |-> e, g |-> SubSeq(text, p, e)]
       ELSE NoSpan

QuotesIn(tok) == IF tok = QUOTE THEN 1 ELSE 0   \* the key token holds two: even
RECURSIVE CountQuotes(_, _)
CountQuotes(text, i) ==
    IF i > Len(text) THEN 0 ELSE QuotesIn(text[i]) + CountQuotes(text, i + 1)

RECURSIVE FindInlineClose(_, _)
(* first "}" at or after i, on the same line, with an even number of quotes
   in the rest of the text *)
FindInlineClose(text, i) ==
    LET e == FindClose(text, i, {"\n"})
    IN IF e = 0 THEN 0
       ELSE IF CountQuotes(text, e + 1) % 2 = 0 THEN e
       ELSE FindInlineClose(text, e + 1)

\* pattern_inline: the brace immediately followed by the knowledge key, a lazy
\* run within the line up to a closing brace after which quotes are balanced
InlineMatchAt(text, p) ==
    LET e == FindInlineClose(text, p + 2)
    IN IF Tok(text, p) = "{" /\ Tok(text, p + 1) = KNOWLEDGE_KEY /\ e > 0
       THEN [end |-> e, g |-> SubSeq(text, p, e)]
       ELSE NoSpan

RECURSIVE FindAllSpans(_, _, _)
(* re.findall for one of the three patterns *)
FindAllSpans(MatchAt(_, _), text, p) ==
    IF p > Len(text) THEN <<>>
    ELSE LET m == MatchAt(text, p)
         IN IF m.end > 0 THEN <<m.g>> \o FindAllSpans(MatchAt, text, m.end + 1)
            ELSE FindAllSpans(MatchAt, text, p + 1)

(* json.loads over the token alphabet of teacher responses: values are strings
   and objects whose only possible key is the knowledge key *)
JsonFail == [ok |-> FALSE, val |-> PyNone, next |-> 0]

RECURSIVE JsonValue(_, _)
JsonValue(text, i) ==
    IF Tok(text, i) = QUOTE
    THEN LET q == FindTok(text, i + 1, {QUOTE, KNOWLEDGE_KEY, "\n"})
         IN IF q > 0 /\ text[q] = QUOTE
            THEN [ok |-> TRUE, val |-> Str(SubSeq(text, i + 1, q - 1)), next |-> q + 1]
            ELSE JsonFail
    ELSE IF Tok(text, i) = "{"
    THEN LET j == SkipWs(text, i + 1)
         IN IF Tok(text, j) = "}"
            THEN [ok |-> TRUE, val |-> PyDict(<<>>), next |-> j + 1]
            ELSE IF Tok(text, j) = KNOWLEDGE_KEY
            THEN LET m == JsonValue(text, SkipWs(text, j + 1))
                     c == SkipWs(text, m.next)
                 IN IF m.ok /\ Tok(text, c) = "}"
                    THEN [ok |-> TRUE, val |-> PyDict(<< <<"knowledge", m.val>> >>),
                          next |-> c + 1]
                    ELSE JsonFail
            ELSE JsonFail
    ELSE JsonFail

json_loads_text(text) ==
    LET m == JsonValue(text, SkipWs(text, 1))
    IN IF m.ok /\ SkipWs(text, m.next) = Len(text) + 1 THEN m ELSE JsonFail

RECURSIVE LStripToks(_, _)
LStripToks(s, toks) == IF s # <<>> /\ Head(s) \in toks THEN LStripToks(Tail(s), toks) ELSE s
RECURSIVE RStripToks(_, _)
RStripToks(s, toks) == IF s # <<>> /\ s[Len(s)] \in toks
                       THEN RStripToks(SubSeq(s, 1, Len(s) - 1), toks) ELSE s

RECURSIVE LastIndexOf(_, _, _)
LastIndexOf(text, i, tok) ==
    IF i < 1 THEN 0 ELSE IF text[i] = tok THEN i ELSE LastIndexOf(text, i - 1, tok)

\* dict.get("knowledge", "")
DictGet(d, k, default) ==
    IF \E i \in 1..Len(d.v) : d.v[i][1] = k
    THEN d.v[CHOOSE i \in 1..Len(d.v) : d.v[i][1] = k][2]
    ELSE default

extract_knowledge_from_text(text) ==
    LET c1 == IF text # <<>> /\ Head(text) = FENCE_JSON
              \* lstrip takes a set of characters: the fence and any of j, s, o, n
              THEN LStripToks(text, {FENCE_JSON, FENCE, "<backquote>", "j", "s", "o", "n"})
              ELSE text
        cleaned_text == IF c1 # <<>> /\ c1[Len(c1)] = FENCE
                        THEN RStripToks(c1, {FENCE, "<backquote>"}) ELSE c1
        parsed == json_loads_text(cleaned_text)
        last == LastIndexOf(cleaned_text, Len(cleaned_text), KNOWLEDGE_KEY)
        k0 == IF last > 0
              THEN Strip(SubSeq(cleaned_text, last + 1, Len(cleaned_text))) ELSE <<>>
        k1 == IF k0 # <<>> /\ Head(k0) = QUOTE THEN LStripToks(k0, {QUOTE}) ELSE k0
        k2 == IF k1 # <<>> /\ k1[Len(k1)] = QUOTE THEN RStripToks(k1, {QUOTE}) ELSE k1
    IN IF parsed.ok /\ parsed.val.t = "dict"
       THEN DictGet(parsed.val, "knowledge", Str(<<>>))
       ELSE Str(k2)

extract_last_knowledge_object(response) ==
    LET text == response.v
        codeblock_matches == FindAllSpans(CodeblockMatchAt, text, 1)
        multiline_matches == FindAllSpans(MultilineMatchAt, text, 1)
        inline_matches == FindAllSpans(InlineMatchAt, text, 1)
    IN IF codeblock_matches # <<>>
       THEN extract_knowledge_from_text(
                <<FENCE_JSON, "\n">> \o codeblock_matches[Len(codeblock_matches)]
                \o <<"\n", FENCE>>)
       ELSE IF multiline_matches # <<>>
       THEN extract_knowledge_from_text(multiline_matches[Len(multiline_matches)])
       ELSE IF inline_matches # <<>>
       THEN extract_knowledge_from_text(inline_matches[Len(inline_matches)])
       ELSE Str(<<>>)

\* json.dumps(knowledge, indent=4, ensure_ascii=False) of a nested value, as text
RECURSIVE JsonText(_)
JsonText(x) ==
    CASE x.t = "str" -> <<QUOTE>> \o x.v \o <<QUOTE>>
      [] x.t = "none" -> <<"null">>
      [] x.t = "dict" ->
            IF x.v = <<>> THEN <<"{", "}">>
            ELSE <<"{", "\n", KNOWLEDGE_KEY, " ">> \o JsonText(x.v[1][2]) \o <<"\n", "}">>

(* ------------------ utils/file_utils.py, the file as text -------------- *)
\* A JSONL file is the sequence of its characters.  json.dumps writes a str
\* between quotes with a newline, a quote and a backslash escaped (one token
\* per escape), None as null, a list between brackets and a dict between
\* braces, with ", " and ": " as separators.  The keys of a dict are token
\* sequences here.
BACKSLASH == "\\"
ESC_NEWLINE == "\\n"
ESC_QUOTE == "\\\""
ESC_BACKSLASH == "\\\\"
NULL == "null"

\* mutant: a str is written between quotes as it is
EscapeNothing(c) == c
EscapeTok(c) == CASE c = "\n" -> ESC_NEWLINE [] c = QUOTE -> ESC_QUOTE
                  [] c = BACKSLASH -> ESC_BACKSLASH [] OTHER -> c
UnescapeTok(c) == CASE c = ESC_NEWLINE -> "\n" [] c = ESC_QUOTE -> QUOTE
                    [] c = ESC_BACKSLASH -> BACKSLASH [] OTHER -> c
JsonStringText(s) == <<QUOTE>> \o [i \in 1..Len(s) |-> EscapeTok(s[i])] \o <<QUOTE>>

RECURSIVE json_dumps_text(_)
RECURSIVE JsonJoinText(_, _)
(* the members of a dict (pairs) or the elements of a list, comma separated *)
JsonJoinText(xs, pairs) ==
    IF xs = <<>> THEN <<>>
    ELSE (IF pairs THEN JsonStringText(Head(xs)[1]) \o <<":", " ">> \o json_dumps_text(Head(xs)[2])
          ELSE json_dumps_text(Head(xs)))
         \o (IF Len(xs) > 1 THEN <<",", " ">> ELSE <<>>)
         \o JsonJoinText(Tail(xs), pairs)
json_dumps_text(x) ==
    CASE x.t = "str" -> JsonStringText(x.v)
      [] x.t = "none" -> <<NULL>>
      [] x.t = "list" -> <<"[">> \o JsonJoinText(x.v, FALSE) \o <<"]">>
      [] x.t = "dict" -> <<"{">> \o JsonJoinText(x.v, TRUE) \o <<"}">>

\* json.loads: the scanner of a string, then the value parser
JsonStringAt(text, i) ==
    LET q == FindTok(text, i + 1, {QUOTE, "\n", BACKSLASH})
    IN IF Tok(text, i) = QUOTE /\ q > 0 /\ text[q] = QUOTE
       THEN [ok |-> TRUE, val |-> [k \in 1..(q - i - 1) |-> UnescapeTok(text[i + k])],
             next |-> q + 1]
       ELSE [ok |-> FALSE, val |-> <<>>, next |-> 0]

\* a later member with the same key replaces the earlier one, in its place
PutPair(acc, key, val) ==
    IF \E n \in 1..Len(acc) : acc[n][1] = key
    THEN [n \in 1..Len(acc) |-> IF acc[n][1] = key THEN <<key, val>> ELSE acc[n]]
    ELSE Append(acc, <<key, val>>)

RECURSIVE JsonValueAt(_, _)
RECURSIVE JsonMembersAt(_, _, _)
RECURSIVE JsonElementsAt(_, _, _)
JsonMembersAt(text, i, acc) ==
    LET k == JsonStringAt(text, i)
        c == SkipWs(text, k.next)
        m == JsonValueAt(text, SkipWs(text, c + 1))
        d == SkipWs(text, m.next)
    IN IF ~k.ok \/ Tok(text, c) # ":" THEN JsonFail
       ELSE IF ~m.ok THEN JsonFail
       ELSE IF Tok(text, d) = ","
       THEN JsonMembersAt(text, SkipWs(text, d + 1), PutPair(acc, k.val, m.val))
       ELSE IF Tok(text, d) = "}"
       THEN [ok |-> TRUE, val |-> PyDict(PutPair(acc, k.val, m.val)), next |-> d + 1]
       ELSE JsonFail
JsonElementsAt(text, i, acc) ==
    LET m == JsonValueAt(text, i)
        d == SkipWs(text, m.next)
    IN IF ~m.ok THEN JsonFail
       ELSE IF Tok(text, d) = ","
       THEN JsonElementsAt(text, SkipWs(text, d + 1), Append(acc, m.val))
       ELSE IF Tok(text, d) = "]"
       THEN [ok |-> TRUE, val |-> PyList(Append(acc, m.val)), next |-> d + 1]
       ELSE JsonFail
JsonValueAt(text, i) ==
    CASE Tok(text, i) = QUOTE ->
            LET k == JsonStringAt(text, i)
            IN IF k.ok THEN [ok |-> TRUE, val |-> Str(k.val), next |-> k.next] ELSE JsonFail
      [] Tok(text, i) = NULL -> [ok |-> TRUE, val |-> PyNone, next |-> i + 1]
      [] Tok(text, i) = "{" ->
            IF Tok(text, SkipWs(text, i + 1)) = "}"
            THEN [ok |-> TRUE, val |-> PyDict(<<>>), next |-> SkipWs(text, i + 1) + 1]
            ELSE JsonMembersAt(text, SkipWs(text, i + 1), <<>>)
      [] Tok(text, i) = "[" ->
            IF Tok(text, SkipWs(text, i + 1)) = "]"
            THEN [ok |-> TRUE, val |-> PyList(<<>>), next |-> SkipWs(text, i + 1) + 1]
            ELSE JsonElementsAt(text, SkipWs(text, i + 1), <<>>)
      [] OTHER -> JsonFail

\* json.loads(line): one value, with nothing but whitespace around it
json_loads_line(line) ==
    LET m == JsonValueAt(line, SkipWs(line, 1))
    IN IF m.ok /\ SkipWs(line, m.next) = Len(line) + 1 THEN m ELSE JsonFail

\* what a loader gives: the list, or the exception it raised
Loaded(data) == [raised |-> "none", data |-> data]
Raised(exception) == [raised |-> exception, data |-> <<>>]

RECURSIVE SplitLines(_)
(* iterating over the file: the text up to each newline, and what is left
   after the last one when that is not empty *)
SplitLines(text) ==
    LET n == FindTok(text, 1, {"\n"})
    IN IF text = <<>> THEN <<>>
       ELSE IF n = 0 THEN <<text>>
       ELSE <<SubSeq(text, 1, n - 1)>> \o SplitLines(SubSeq(text, n + 1, Len(text)))

RECURSIVE LoadLines(_, _)
(* the loop of load_jsonl: blank lines skipped, the first line that does not
   parse raises *)
LoadLines(lines, data) ==
    IF lines = <<>> THEN Loaded(data)
    ELSE IF Strip(Head(lines)) = <<>> THEN LoadLines(Tail(lines), data)
    ELSE IF json_loads_line(Strip(Head(lines))).ok
    THEN LoadLines(Tail(lines), Append(data, json_loads_line(Strip(Head(lines))).val))
    ELSE Raised("JSONDecodeError")

\* the content of a path at which there is no file
Missing == <<"<no file>">>

load_jsonl_text(text) ==
    IF text = Missing THEN Raised("FileNotFoundError")
    ELSE LoadLines(SplitLines(text), <<>>)

\* file.write(json_line + '\n') on the file opened in 'a' mode, which creates it
append_to_jsonl_text(item, text) ==
    (IF text = Missing THEN <<>> ELSE text) \o json_dumps_text(item) \o <<"\n">>

(* ------------------------- aggregators of the tasks -------------------- *)
Column(results, k) == [i \in 1..Len(results) |-> results[i][k]]

\* tasks/task2_evaluator.py and tasks/task3_evaluator.py
calculate_overall_accuracy(results) ==
    [overall |-> calculate_accuracy(Column(results, "prediction"), Column(results, "answer"))]

\* tasks/task1_evaluator.py; dicts with computed keys are functions from the
\* key's text to the value
NewFieldEntry == (<<"answers">> :> <<>>) @@ (<<"predictions">> :> <<>>)
                 @@ (<<"sub_field">> :> PyDict(<<>>))
DictKeys(d) == {d.v[i][1] : i \in 1..Len(d.v)}

FieldDataStep(field_data, item) ==
    LET field == item["field"].v
        sub_field == item["sub_field"].v
        fd1 == IF field \notin DOMAIN field_data
               THEN SetKey(field_data, field, NewFieldEntry) ELSE field_data
        \* the membership test reads the "sub_field" dict, the store goes to the
        \* field entry itself
        e1 == IF sub_field \notin DictKeys(fd1[field][<<"sub_field">>])
              THEN SetKey(fd1[field], sub_field, [answers |-> <<>>, predictions |-> <<>>])
              ELSE fd1[field]
        e2 == SetKey(e1, sub_field,
                     [answers |-> Append(e1[sub_field].answers, item["answer"]),
                      predictions |-> Append(e1[sub_field].predictions, item["prediction"])])
        e3 == SetKey(e2, <<"answers">>, Append(e2[<<"answers">>], item["answer"]))
        e4 == SetKey(e3, <<"predictions">>, Append(e3[<<"predictions">>], item["prediction"]))
    IN SetKey(fd1, field, e4)

RECURSIVE FieldData(_)
FieldData(results) ==
    IF results = <<>> THEN <<>>
    ELSE FieldDataStep(FieldData(SubSeq(results, 1, Len(results) - 1)), results[Len(results)])

calculate_field_accuracy(results) ==
    LET field_data == FieldData(results)
        sub_scores(field_results) ==
            \* one entry per key of field_results["sub_field"]
            [sub_field_name \in DictKeys(field_results[<<"sub_field">>]) |->
                calculate_accuracy(field_results[sub_field_name].predictions,
                                   field_results[sub_field_name].answers)]
        per_field == [field_name \in DOMAIN field_data |->
            (<<"overall">> :> calculate_accuracy(field_data[field_name][<<"predictions">>],
                                                field_data[field_name][<<"answers">>]))
            @@ sub_scores(field_data[field_name])]
        overall == (<<"overall">> :> calculate_accuracy(Column(results, "prediction"),
                                                       Column(results, "answer")))
    IN IF results = <<>> THEN overall ELSE overall @@ per_field

(* ------------------------------ prompts -------------------------------- *)
\* utils/prompts.py: a prompt is the template filled with its arguments
build_task1_prompt(query, field) ==
    [system |-> PyNone, template |-> "task1", args |-> <<field, query>>]
build_task2_prompt(query, text) ==
    [system |-> PyNone, template |-> "task2", args |-> <<text, query>>]
build_teacher_prompt(teaching_guide, text) ==
    [system |-> Str(<<"teacher">>), template |-> "teacher", args |-> <<text, teaching_guide>>]
build_guided_student_prompt(query, text, knowledge) ==
    [system |-> Str(<<"student">>), template |-> "guided_student",
     args |-> <<text, knowledge, query>>]

(* ------------------------- files and datasets -------------------------- *)
Task1Data == <<"datasets", "task1.jsonl">>
Task2Data == <<"datasets", "task2.jsonl">>
Task3Data == <<"datasets", "task3.jsonl">>
Task1Out == <<"results", "task1.jsonl">>
Task2Out == <<"results", "task2.jsonl">>
KnowledgeFile == <<"results", "task3_knowledge.jsonl">>
StudentFile(model_name) == <<"results", "task3_student_", model_name>>

\* the student roster of run_evaluation_task3, cut to its first NumStudents
FullRoster == <<"qwen-1_8b", "qwen-7b", "qwen-14b", "yi-6b", "internlm2-7b">>
Roster == SubSeq(FullRoster, 1, IF NumStudents < 5 THEN NumStudents ELSE 5)

Files == {Task1Data, Task2Data, Task3Data, Task1Out, Task2Out, KnowledgeFile}
         \cup {StudentFile(Roster[i]) : i \in 1..Len(Roster)}

Q(i) == Str(<<"q", i>>)
Ans(i) == Str(<<IF i % 2 = 1 THEN "A" ELSE "B">>)

Task1Sample(i) == [question |-> Q(i), answer |-> Ans(i),
                   field |-> Str(<<IF i <= 2 THEN "f1" ELSE "f2">>),
                   sub_field |-> Str(<<IF i % 2 = 1 THEN "s1" ELSE "s2">>)]
\* a task2 line holds one material and its questions; the first line holds two
Qas(i) == PyDict(<< <<"question", Q(i)>>, <<"answer", Ans(i)>> >>)
Task2Line(i, n) == [material |-> Str(<<"m", i>>),
                    qas |-> PyList(IF i = 1 /\ n >= 2 THEN <<Qas(1), Qas(2)>>
                                   ELSE <<Qas(IF n >= 2 THEN i + 1 ELSE i)>>)]
Task3Sample(i) == [question |-> Q(i), answer |-> Ans(i),
                   material |-> Str(<<"m", i>>), guideline |-> Str(<<"g", i>>)]

DatasetFile(task, n) ==
    CASE task = "task1" -> [i \in 1..n |-> json_dumps(Task1Sample(i))]
      [] task = "task2" -> [i \in 1..(IF n >= 2 THEN n - 1 ELSE n) |-> json_dumps(Task2Line(i, n))]
      [] task = "task3" -> [i \in 1..n |-> json_dumps(Task3Sample(i))]

\* what the backends can answer
Responses == { <<BOXED, "A", "}">>,
               <<"x", BOXED, TEXT, "B", ".", " ", "x", "}", "}">> }
TeacherResponses == { <<FENCE_JSON, "\n", "{", KNOWLEDGE_KEY, " ", QUOTE, "k", QUOTE, "}", "\n", FENCE>>,
                      <<"k">> }

(* ------------------------------- state --------------------------------- *)
VARIABLES
    entry,               \* which function runs: run_evaluation_task1/2/3
    test_time,           \* args.test_time
    sampling,            \* TRUE: the backend samples; FALSE: a function of the prompt
    memo,                \* what a deterministic backend has answered so far
    fs,                  \* path -> lines of the JSONL file ("no file" is no lines)
    pc,                  \* position of the process
    chats,               \* model.chat calls made so far, over all runs
    heap,                \* the dicts alive in the process; lists hold addresses
    evaluation_data, evaluation_results, results_filepath, iteration, sample_idx,
    score,               \* accuracy_scores returned by the last finished loop
    knowledge_results,   \* Stage A's list, then evaluation_data of run_evaluation_task3
    student,             \* position in the roster
    accuracy_scores,     \* run_evaluation_task3's dict
    result,              \* what run_evaluation_task3 returns
    device,              \* backends whose model is loaded on the compute device
    \* history of the current and the previous runs, read by the properties only
    prov,                \* path -> for each line, the <<sample_idx, iteration>> it was made for
    loaded,              \* len(evaluation_results) right after loading
    gens,                \* model.chat calls that returned in the current loop
    firstGen,            \* first flat index processed in the current loop, or -1
    attempted, failed,   \* Stage A samples processed / failed in the current run
    prevFailed,          \* Stage A samples that failed in the previous run
    failedAt,            \* the failure that aborted a loop of this or of the previous run
    studentLog,          \* <<model_name, overall>> per finished student loop
    dataSeen,            \* path -> the datasets a loop writing to it was started with
    wasCut,              \* an output file has been cut back
    released,            \* the backends this process has released
    \* storage faults
    dataset_exists,      \* os.path.exists of the task's dataset file
    faults,              \* storage faults so far: failed or interrupted appends
    ioError,             \* the storage exception raised in this process, or NoError
    tornAt,              \* the file and flat index of the record whose line is damaged
    \* a function of utils/metrics.py or an aggregator called on its own
    fn,                  \* the function called, "none" while the pipeline runs
    args,                \* its arguments, by parameter name
    parts,               \* the spans a text argument is made of, in order
    returned,            \* what the call returned, NotCalled before it
    \* a JSONL file on its own, as text
    disk,                \* the characters of the file, Missing before it is created
    appended,            \* calls of append_to_jsonl begun so far
    torn                 \* the call during which the process was killed, if any

vars == <<entry, test_time, sampling, memo, fs, pc, chats, heap, evaluation_data,
          evaluation_results, results_filepath, iteration, sample_idx, score,
          knowledge_results, student, accuracy_scores, result, device, prov, loaded,
          gens, firstGen, attempted, failed, prevFailed, failedAt, studentLog,
          dataSeen, wasCut, released, dataset_exists, faults, ioError, tornAt, fn, args, parts, returned, disk, appended, torn>>

harnessVars == <<entry, test_time, sampling>>
task3Vars == <<knowledge_results, student, accuracy_scores, result>>
stageAHist == <<attempted, failed, prevFailed>>
faultVars == <<dataset_exists, faults, ioError, tornAt>>
storeVars == <<disk, appended, torn>>
unitVars == <<fn, args, parts, returned, storeVars>>

NoFile == <<"none">>
NoFail == [file |-> NoFile, flat |-> -1, prefix |-> <<>>, old |-> FALSE]
NotCalled == [done |-> FALSE, value |-> <<>>]
NoTorn == [at |-> 0, cut |-> 0]
NoError == [raised |-> "none", by |-> "none"]
NotTorn == [file |-> NoFile, flat |-> -1]
Returns(v) == [done |-> TRUE, value |-> v]

(* ------------------------------ helpers -------------------------------- *)
Deref(h, list) == [i \in 1..Len(list) |-> h[list[i]]]
AddrsAfter(h, n) == [i \in 1..n |-> Len(h) + i]

\* copy.deepcopy of a list of dicts: one new dict per distinct element
FirstIndex(list, i) == CHOOSE j \in 1..i : list[j] = list[i] /\ \A k \in 1..(j - 1) : list[k] # list[i]
DistinctUpTo(list, i) == Cardinality({j \in 1..i : FirstIndex(list, j) = j})
DeepCopyHeap(h, list) ==
    h \o [n \in 1..DistinctUpTo(list, Len(list)) |->
            h[list[CHOOSE j \in 1..Len(list) :
                     FirstIndex(list, j) = j /\ DistinctUpTo(list, j) = n]]]
DeepCopyList(h, list) ==
    [i \in 1..Len(list) |-> Len(h) + DistinctUpTo(list, FirstIndex(list, i))]

\* the dataset of task2: one sample per question of each line
RECURSIVE FlattenQas(_, _)
FlattenQas(item, qas) ==
    IF qas = <<>> THEN <<>>
    ELSE << [question |-> DictGet(Head(qas), "question", PyNone),
             answer |-> DictGet(Head(qas), "answer", PyNone),
             material |-> item["material"]] >> \o FlattenQas(item, Tail(qas))
RECURSIVE FlattenTask2(_)
FlattenTask2(raw_data) ==
    IF raw_data = <<>> THEN <<>>
    ELSE FlattenQas(Head(raw_data), Head(raw_data)["qas"].v) \o FlattenTask2(Tail(raw_data))

\* model.chat: a sampling backend may return any response; a deterministic
\* one returns what it returned for this prompt before
ChatReturns(backend, prompt, r) ==
    sampling \/ \A m \in memo : (m[1] = backend /\ m[2] = prompt) => m[3] = r
Remember(backend, prompt, r) == IF sampling THEN memo ELSE memo \cup {<<backend, prompt, r>>}
\* the backend the current loop was given
LoopBackend == IF entry = "task3" THEN Roster[student] ELSE "teacher"

\* mutant: the iteration's stride is forgotten
ResultIndexNoStride(idx, iter, total_samples) == idx + iter
\* result_index = sample_idx + iteration * total_samples
ResultIndex(idx, iter, total_samples) == idx + iter * total_samples
\* mutants: the comparison is off by one, either way
AlreadyProcessedInclusive(result_index, results) == result_index <= Len(results)
AlreadyProcessedButLast(result_index, results) == result_index < Len(results) - 1
\* if result_index < len(evaluation_results): continue
AlreadyProcessed(result_index, results) == result_index < Len(results)

TotalSamples == Len(evaluation_data)
CurrentSample == evaluation_data[sample_idx + 1]

LoopPrompt ==
    LET sample == heap[CurrentSample]
    IN CASE entry = "task1" -> build_task1_prompt(sample["question"], sample["field"])
         [] entry = "task2" -> build_task2_prompt(sample["question"], sample["material"])
         [] entry = "task3" ->
                build_guided_student_prompt(
                    sample["question"], sample["material"],
                    IF IsStr(sample["knowledge"]) THEN sample["knowledge"]
                    ELSE Str(JsonText(sample["knowledge"])))

(* ------------------------------- Init ---------------------------------- *)
DataPath(e) == CASE e = "task1" -> Task1Data [] e = "task2" -> Task2Data [] e = "task3" -> Task3Data

InitPipeline ==
    /\ entry \in {"task1", "task2", "task3"}
    /\ test_time \in 1..MaxTestTime
    /\ sampling \in BOOLEAN
    /\ \E n \in 1..MaxSamples :
          fs = [f \in Files |-> IF f = DataPath(entry) THEN DatasetFile(entry, n) ELSE <<>>]
    /\ memo = {}
    /\ pc = "idle"
    /\ chats = 0
    /\ heap = <<>>
    /\ evaluation_data = <<>>
    /\ evaluation_results = <<>>
    /\ results_filepath = NoFile
    /\ iteration = 0
    /\ sample_idx = 0
    /\ score = <<>>
    /\ knowledge_results = <<>>
    /\ student = 0
    /\ accuracy_scores = <<>>
    /\ result = <<>>
    /\ device = {}
    /\ prov = [f \in Files |-> <<>>]
    /\ loaded = 0
    /\ gens = 0
    /\ firstGen = -1
    /\ attempted = {}
    /\ failed = {}
    /\ prevFailed = {}
    /\ failedAt = NoFail
    /\ studentLog = <<>>
    /\ dataSeen = [f \in Files |-> {}]
    /\ wasCut = FALSE
    /\ released = {}
    /\ faults = 0
    /\ ioError = NoError
    /\ tornAt = NotTorn
    /\ fn = "none"
    /\ args = <<>>
    /\ parts = <<>>
    /\ returned = NotCalled
    /\ disk = Missing
    /\ appended = 0
    /\ torn = NoTorn

\* storage works: the dataset is there
Init == InitPipeline /\ dataset_exists = TRUE

(* ---------------- run_evaluation_task1 / run_evaluation_task2 ---------- *)
\* both load the existing results, then the dataset, and enter the loop
EnterLoop(results, data, path) ==
    /\ heap' = results \o data
    /\ evaluation_results' = AddrsAfter(<<>>, Len(results))
    /\ evaluation_data' = AddrsAfter(results, Len(data))
    /\ results_filepath' = path
    /\ iteration' = 0
    /\ sample_idx' = 0
    /\ loaded' = Len(results)
    /\ gens' = 0
    /\ firstGen' = -1
    /\ pc' = "loop"

StartTask1 ==
    /\ pc = "idle" /\ entry = "task1"
    /\ dataset_exists /\ Loadable(fs[Task1Out])
    /\ device' = {"teacher"}
    /\ EnterLoop(load_jsonl(fs[Task1Out]), load_jsonl(fs[Task1Data]), Task1Out)
    /\ dataSeen' = [dataSeen EXCEPT ![Task1Out] = @ \cup {load_jsonl(fs[Task1Data])}]
    /\ UNCHANGED <<harnessVars, unitVars, faultVars, wasCut, released, memo, fs, chats, score, task3Vars, prov, stageAHist,
                   failedAt, studentLog>>

StartTask2 ==
    /\ pc = "idle" /\ entry = "task2"
    /\ dataset_exists /\ Loadable(fs[Task2Out])
    /\ device' = {"teacher"}
    /\ EnterLoop(load_jsonl(fs[Task2Out]), FlattenTask2(load_jsonl(fs[Task2Data])), Task2Out)
    /\ dataSeen' = [dataSeen EXCEPT ![Task2Out] = @ \cup {FlattenTask2(load_jsonl(fs[Task2Data]))}]
    /\ UNCHANGED <<harnessVars, unitVars, faultVars, wasCut, released, memo, fs, chats, score, task3Vars, prov, stageAHist,
                   failedAt, studentLog>>

(* -------- the loop shared by task1, task2 and run_evaluation_student ---- *)
InLoopBody == pc = "loop" /\ iteration < test_time /\ sample_idx < TotalSamples

\* the sample's flat index is below the number of results: continue
LoopSkip ==
    /\ InLoopBody
    /\ AlreadyProcessed(ResultIndex(sample_idx, iteration, TotalSamples), evaluation_results)
    /\ sample_idx' = sample_idx + 1
    /\ UNCHANGED <<harnessVars, unitVars, faultVars, dataSeen, wasCut, released, memo, fs, pc, chats, heap, evaluation_data,
                   evaluation_results, results_filepath, iteration, score, task3Vars,
                   device, prov, loaded, gens, firstGen, stageAHist, failedAt, studentLog>>

\* prompt, chat, extraction, the sample mutated in place, appended to the
\* file and to the list (the list holds the sample itself, not a copy)
LoopGenerate ==
    /\ InLoopBody
    /\ ~AlreadyProcessed(ResultIndex(sample_idx, iteration, TotalSamples), evaluation_results)
    /\ chats < MaxChats
    /\ chats' = chats + 1
    /\ \E r \in Responses :
        /\ ChatReturns(LoopBackend, LoopPrompt, r)
        /\ memo' = Remember(LoopBackend, LoopPrompt, r)
        /\ heap' = [heap EXCEPT ![CurrentSample] =
                       SetKey(SetKey(@, "response", Str(r)),
                              "prediction", extract_last_boxed_answer(Str(r)))]
    /\ fs' = [fs EXCEPT ![results_filepath] = append_to_jsonl(heap'[CurrentSample], @)]
    /\ evaluation_results' = Append(evaluation_results, CurrentSample)
    /\ prov' = [prov EXCEPT ![results_filepath] = Append(@, <<sample_idx, iteration>>)]
    /\ gens' = gens + 1
    /\ firstGen' = IF firstGen = -1
                   THEN ResultIndex(sample_idx, iteration, TotalSamples) ELSE firstGen
    /\ sample_idx' = sample_idx + 1
    /\ UNCHANGED <<harnessVars, unitVars, faultVars, dataSeen, wasCut, released, pc, evaluation_data, results_filepath, iteration,
                   score, task3Vars, device, loaded, stageAHist, failedAt, studentLog>>

\* mutant: the failure is caught and the loop continues with the next sample
LoopFailCaught ==
    /\ InLoopBody
    /\ ~AlreadyProcessed(ResultIndex(sample_idx, iteration, TotalSamples), evaluation_results)
    /\ chats < MaxChats
    /\ chats' = chats + 1
    /\ sample_idx' = sample_idx + 1
    /\ failedAt' = [file |-> results_filepath,
                    flat |-> ResultIndex(sample_idx, iteration, TotalSamples),
                    prefix |-> fs[results_filepath], old |-> FALSE]
    /\ firstGen' = IF firstGen = -1
                   THEN ResultIndex(sample_idx, iteration, TotalSamples) ELSE firstGen
    /\ UNCHANGED <<harnessVars, unitVars, faultVars, dataSeen, wasCut, released, memo, fs, pc, heap, evaluation_data,
                   evaluation_results, results_filepath, iteration, score, task3Vars,
                   device, prov, loaded, gens, stageAHist, studentLog>>

\* the prompt builder or model.chat raises: nothing catches it in these loops
LoopFail ==
    /\ InLoopBody
    /\ ~AlreadyProcessed(ResultIndex(sample_idx, iteration, TotalSamples), evaluation_results)
    /\ chats < MaxChats
    /\ chats' = chats + 1
    /\ pc' = "aborted"
    /\ failedAt' = [file |-> results_filepath,
                    flat |-> ResultIndex(sample_idx, iteration, TotalSamples),
                    prefix |-> fs[results_filepath], old |-> FALSE]
    /\ firstGen' = IF firstGen = -1
                   THEN ResultIndex(sample_idx, iteration, TotalSamples) ELSE firstGen
    /\ UNCHANGED <<harnessVars, unitVars, faultVars, dataSeen, wasCut, released, memo, fs, heap, evaluation_data, evaluation_results,
                   results_filepath, iteration, sample_idx, score, task3Vars, device,
                   prov, loaded, gens, stageAHist, studentLog>>

\* mutant: the outer loop's counter does not advance
LoopRestartsIteration ==
    /\ pc = "loop" /\ iteration < test_time /\ sample_idx = TotalSamples
    /\ sample_idx' = 0
    /\ UNCHANGED <<harnessVars, unitVars, faultVars, dataSeen, wasCut, released, memo, fs, pc, chats, heap, evaluation_data,
                   evaluation_results, results_filepath, iteration, score, task3Vars, device,
                   prov, loaded, gens, firstGen, stageAHist, failedAt, studentLog>>

\* the inner for loop is exhausted: next iteration of the outer one
LoopNextIteration ==
    /\ pc = "loop" /\ iteration < test_time /\ sample_idx = TotalSamples
    /\ iteration' = iteration + 1
    /\ sample_idx' = 0
    /\ UNCHANGED <<harnessVars, unitVars, faultVars, dataSeen, wasCut, released, memo, fs, pc, chats, heap, evaluation_data,
                   evaluation_results, results_filepath, score, task3Vars, device,
                   prov, loaded, gens, firstGen, stageAHist, failedAt, studentLog>>

LoopEnded == pc = "loop" /\ iteration = test_time

FinishTask1 ==
    /\ LoopEnded /\ entry = "task1"
    /\ score' = calculate_field_accuracy(Deref(heap, evaluation_results))
    /\ pc' = "done"
    /\ UNCHANGED <<harnessVars, unitVars, faultVars, dataSeen, wasCut, released, memo, fs, chats, heap, evaluation_data, evaluation_results,
                   results_filepath, iteration, sample_idx, task3Vars, device, prov,
                   loaded, gens, firstGen, stageAHist, failedAt, studentLog>>

FinishTask2 ==
    /\ LoopEnded /\ entry = "task2"
    /\ score' = calculate_overall_accuracy(Deref(heap, evaluation_results))
    /\ pc' = "done"
    /\ UNCHANGED <<harnessVars, unitVars, faultVars, dataSeen, wasCut, released, memo, fs, chats, heap, evaluation_data, evaluation_results,
                   results_filepath, iteration, sample_idx, task3Vars, device, prov,
                   loaded, gens, firstGen, stageAHist, failedAt, studentLog>>

(* ------------------------ the process and its files -------------------- *)
\* the process ends (normally or by the uncaught exception): its memory and
\* the device are gone, the files stay
Exit ==
    /\ pc \in {"done", "aborted"}
    /\ pc' = "idle"
    /\ heap' = <<>>
    /\ evaluation_data' = <<>>
    /\ evaluation_results' = <<>>
    /\ results_filepath' = NoFile
    /\ iteration' = 0
    /\ sample_idx' = 0
    /\ score' = <<>>
    /\ knowledge_results' = <<>>
    /\ student' = 0
    /\ accuracy_scores' = <<>>
    /\ result' = <<>>
    /\ device' = {}
    /\ released' = {}
    /\ loaded' = 0
    /\ gens' = 0
    /\ firstGen' = -1
    /\ studentLog' = <<>>
    /\ failedAt' = IF failedAt = NoFail \/ failedAt.old THEN NoFail
                   ELSE [failedAt EXCEPT !.old = TRUE]
    /\ ioError' = NoError
    /\ UNCHANGED <<harnessVars, unitVars, dataset_exists, faults, tornAt, dataSeen, wasCut, memo,
                   fs, chats, prov, stageAHist>>

OutputFiles == CASE entry = "task1" -> {Task1Out}
                 [] entry = "task2" -> {Task2Out}
                 [] entry = "task3" -> {StudentFile(Roster[i]) : i \in 1..Len(Roster)}

\* the resume scenario of a deterministic backend: between two runs an output
\* file is cut back to its first k lines
Truncate ==
    /\ pc = "idle" /\ ~sampling
    /\ \E f \in OutputFiles : \E k \in 0..(Len(fs[f]) - 1) :
        /\ fs' = [fs EXCEPT ![f] = SubSeq(@, 1, k)]
        /\ prov' = [prov EXCEPT ![f] = SubSeq(@, 1, k)]
        /\ failedAt' = IF failedAt.file = f THEN NoFail ELSE failedAt
    /\ wasCut' = TRUE
    /\ UNCHANGED <<harnessVars, unitVars, faultVars, dataSeen, released, memo, pc, chats, heap, evaluation_data, evaluation_results,
                   results_filepath, iteration, sample_idx, score, task3Vars, device,
                   loaded, gens, firstGen, stageAHist, studentLog>>

(* ---------------- generate_knowledge_for_task3 (Stage A) --------------- *)
\* samples_to_process = total_samples - len(knowledge_results); <= 0 returns
NothingToProcess(total_samples, results) == total_samples - Len(results) <= 0
\* if sample_idx < len(knowledge_results): continue
KnowledgeProcessed(idx, results) == idx < Len(results)

StageAStart ==
    /\ pc = "idle" /\ entry = "task3"
    /\ dataset_exists /\ Loadable(fs[KnowledgeFile])
    /\ device' = {"teacher"}
    /\ LET results == load_jsonl(fs[KnowledgeFile])
           data == load_jsonl(fs[Task3Data])
       IN /\ heap' = results \o data
          /\ knowledge_results' = AddrsAfter(<<>>, Len(results))
          /\ evaluation_data' = AddrsAfter(results, Len(data))
          /\ pc' = IF NothingToProcess(Len(data), results) THEN "release" ELSE "stageA"
    /\ sample_idx' = 0
    /\ prevFailed' = failed
    /\ failed' = {}
    /\ attempted' = {}
    /\ UNCHANGED <<harnessVars, unitVars, faultVars, dataSeen, wasCut, released, memo, fs, chats, evaluation_results, results_filepath, iteration,
                   score, student, accuracy_scores, result, prov, loaded, gens, firstGen,
                   failedAt, studentLog>>

InStageABody == pc = "stageA" /\ sample_idx < TotalSamples

StageASkip ==
    /\ InStageABody
    /\ KnowledgeProcessed(sample_idx, knowledge_results)
    /\ sample_idx' = sample_idx + 1
    /\ UNCHANGED <<harnessVars, unitVars, faultVars, dataSeen, wasCut, released, memo, fs, pc, chats, heap, evaluation_data,
                   evaluation_results, results_filepath, iteration, score, task3Vars,
                   device, prov, loaded, gens, firstGen, stageAHist, failedAt, studentLog>>

TeacherPrompt ==
    build_teacher_prompt(heap[CurrentSample]["guideline"], heap[CurrentSample]["material"])

StageAGenerate ==
    /\ InStageABody
    /\ ~KnowledgeProcessed(sample_idx, knowledge_results)
    /\ chats < MaxChats
    /\ chats' = chats + 1
    /\ \E r \in TeacherResponses :
        /\ ChatReturns("teacher", TeacherPrompt, r)
        /\ memo' = Remember("teacher", TeacherPrompt, r)
        /\ heap' = [heap EXCEPT ![CurrentSample] =
                       SetKey(SetKey(@, "response", Str(r)),
                              "knowledge", extract_last_knowledge_object(Str(r)))]
    /\ fs' = [fs EXCEPT ![KnowledgeFile] = append_to_jsonl(heap'[CurrentSample], @)]
    /\ knowledge_results' = Append(knowledge_results, CurrentSample)
    /\ prov' = [prov EXCEPT ![KnowledgeFile] = Append(@, <<sample_idx, 0>>)]
    /\ attempted' = attempted \cup {sample_idx}
    /\ sample_idx' = sample_idx + 1
    /\ UNCHANGED <<harnessVars, unitVars, faultVars, dataSeen, wasCut, released, pc, evaluation_data, evaluation_results,
                   results_filepath, iteration, score, student, accuracy_scores, result,
                   device, loaded, gens, firstGen, failed, prevFailed, failedAt, studentLog>>

\* mutant: the handler leaves the loop instead of continuing
StageAFailBreaks ==
    /\ InStageABody
    /\ ~KnowledgeProcessed(sample_idx, knowledge_results)
    /\ chats < MaxChats
    /\ chats' = chats + 1
    /\ attempted' = attempted \cup {sample_idx}
    /\ failed' = failed \cup {sample_idx}
    /\ pc' = "release"
    /\ UNCHANGED <<harnessVars, unitVars, faultVars, dataSeen, wasCut, released, memo, fs, heap, evaluation_data,
                   evaluation_results, results_filepath, iteration, sample_idx, score,
                   task3Vars, device, prov, loaded, gens, firstGen, prevFailed, failedAt,
                   studentLog>>

\* except Exception: the error is logged and the loop continues
StageAFail ==
    /\ InStageABody
    /\ ~KnowledgeProcessed(sample_idx, knowledge_results)
    /\ chats < MaxChats
    /\ chats' = chats + 1
    /\ attempted' = attempted \cup {sample_idx}
    /\ failed' = failed \cup {sample_idx}
    /\ sample_idx' = sample_idx + 1
    /\ UNCHANGED <<harnessVars, unitVars, faultVars, dataSeen, wasCut, released, memo, fs, pc, heap, evaluation_data,
                   evaluation_results, results_filepath, iteration, score, task3Vars,
                   device, prov, loaded, gens, firstGen, prevFailed, failedAt, studentLog>>

StageAReturn ==
    /\ pc = "stageA" /\ sample_idx = TotalSamples
    /\ pc' = "release"
    /\ UNCHANGED <<harnessVars, unitVars, faultVars, dataSeen, wasCut, released, memo, fs, chats, heap, evaluation_data, evaluation_results,
                   results_filepath, iteration, sample_idx, score, task3Vars, device,
                   prov, loaded, gens, firstGen, stageAHist, failedAt, studentLog>>

(* ------------------------- run_evaluation_task3 ------------------------ *)
\* mutant: release frees nothing
ReleaseKeeps(holders, backend) == holders
\* Qwen3Model.release / StudentModel.release: the model leaves the device
Release(holders, backend) == holders \ {backend}

ReleaseTeacher ==
    /\ pc = "release"
    /\ device' = Release(device, "teacher")
    /\ released' = released \cup {"teacher"}
    /\ accuracy_scores' = <<>>
    /\ student' = 1
    /\ pc' = "students"
    /\ UNCHANGED <<harnessVars, unitVars, faultVars, dataSeen, wasCut, memo, fs, chats, heap, evaluation_data, evaluation_results,
                   results_filepath, iteration, sample_idx, score, knowledge_results,
                   result, prov, loaded, gens, firstGen, stageAHist, failedAt, studentLog>>

\* mutant: the student is handed Stage A's list itself
StudentDataShared(h, data) == [heap |-> h, list |-> data]
\* what run_evaluation_student receives as evaluation_data: the list it gets
\* and the heap holding its elements
StudentData(h, data) == [heap |-> DeepCopyHeap(h, data), list |-> DeepCopyList(h, data)]

\* StudentModel(...) is constructed, the dataset is copied and the student's
\* loop loads its own results file
StudentStart ==
    /\ pc = "students" /\ student <= Len(Roster)
    /\ Loadable(fs[StudentFile(Roster[student])])
    /\ device' = device \cup {Roster[student]}
    /\ LET h1 == StudentData(heap, knowledge_results).heap
           results == load_jsonl(fs[StudentFile(Roster[student])])
       IN /\ evaluation_data' = StudentData(heap, knowledge_results).list
          /\ dataSeen' = [dataSeen EXCEPT ![StudentFile(Roster[student])] =
                              @ \cup {Deref(h1, StudentData(heap, knowledge_results).list)}]
          /\ heap' = h1 \o results
          /\ evaluation_results' = AddrsAfter(h1, Len(results))
          /\ loaded' = Len(results)
    /\ results_filepath' = StudentFile(Roster[student])
    /\ iteration' = 0
    /\ sample_idx' = 0
    /\ gens' = 0
    /\ firstGen' = -1
    /\ pc' = "loop"
    /\ UNCHANGED <<harnessVars, unitVars, faultVars, wasCut, released, memo, fs, chats, score, task3Vars, prov, stageAHist,
                   failedAt, studentLog>>

\* the student's loop returns, its overall accuracy is stored under its name
\* and the student is released
StudentFinish ==
    /\ LoopEnded /\ entry = "task3"
    /\ LET accuracy_score ==
             SetKey(calculate_overall_accuracy(Deref(heap, evaluation_results)),
                    "model_name", Roster[student])
       IN /\ score' = accuracy_score
          /\ accuracy_scores' = SetKey(accuracy_scores, Roster[student],
                                       accuracy_score["overall"])
          /\ studentLog' = Append(studentLog, <<Roster[student], accuracy_score["overall"]>>)
    /\ device' = Release(device, Roster[student])
    /\ released' = released \cup {Roster[student]}
    /\ student' = student + 1
    /\ pc' = "students"
    /\ UNCHANGED <<harnessVars, unitVars, faultVars, dataSeen, wasCut, memo, fs, chats, heap, evaluation_data, evaluation_results,
                   results_filepath, iteration, sample_idx, knowledge_results, result,
                   prov, loaded, gens, firstGen, stageAHist, failedAt>>

RECURSIVE RatSum(_, _)
RatSum(d, keys) == IF keys = {} THEN <<0, 1>>
                   ELSE LET k == CHOOSE x \in keys : TRUE
                        IN RatAdd(d[k], RatSum(d, keys \ {k}))
\* mutant: the sum is divided by the length of the full roster
MeanOverFullRoster(d) == RatDivInt(RatSum(d, DOMAIN d), Len(FullRoster))
\* sum(values) / len(values)
Mean(d) == RatDivInt(RatSum(d, DOMAIN d), Cardinality(DOMAIN d))

Task3Return ==
    /\ pc = "students" /\ student > Len(Roster)
    /\ result' = [overall |-> Mean(accuracy_scores), student_scores |-> accuracy_scores]
    /\ pc' = "done"
    /\ UNCHANGED <<harnessVars, unitVars, faultVars, dataSeen, wasCut, released, memo, fs, chats, heap, evaluation_data, evaluation_results,
                   results_filepath, iteration, sample_idx, score, knowledge_results,
                   student, accuracy_scores, device, prov, loaded, gens, firstGen,
                   stageAHist, failedAt, studentLog>>

(* ------------------------------- Next ---------------------------------- *)
Next ==
    \/ StartTask1 \/ StartTask2
    \/ LoopSkip \/ LoopGenerate \/ LoopFail \/ LoopNextIteration
    \/ FinishTask1 \/ FinishTask2
    \/ StageAStart \/ StageASkip \/ StageAGenerate \/ StageAFail \/ StageAReturn
    \/ ReleaseTeacher \/ StudentStart \/ StudentFinish \/ Task3Return
    \/ Exit \/ Truncate

Spec == Init /\ [][Next]_vars

(* --------------------------- storage faults ---------------------------- *)
\* what of a record's line reaches the file when its write fails or is
\* interrupted: nothing, the line up to a point inside the JSON text, or the
\* JSON text without its newline
Written == {"nothing", "cut", "unterminated"}
WritePart(path, written, flat) ==
    /\ fs' = IF written = "nothing" THEN fs
             ELSE [fs EXCEPT ![path] = write_part(heap'[CurrentSample], @, written)]
    /\ prov' = IF written = "nothing" THEN prov
               ELSE [prov EXCEPT ![path] = Append(@, <<sample_idx, iteration>>)]
    /\ tornAt' = IF written = "nothing" THEN tornAt ELSE [file |-> path, flat |-> flat]

\* append_to_jsonl raises in the loop of task1, task2 or a student: nothing
\* catches it
LoopAppendFail ==
    /\ InLoopBody
    /\ ~AlreadyProcessed(ResultIndex(sample_idx, iteration, TotalSamples), evaluation_results)
    /\ chats < MaxChats /\ faults < MaxFaults
    /\ NoDamagedLine(fs[results_filepath])
    /\ chats' = chats + 1
    /\ faults' = faults + 1
    /\ \E r \in Responses :
        /\ ChatReturns(LoopBackend, LoopPrompt, r)
        /\ memo' = Remember(LoopBackend, LoopPrompt, r)
        /\ heap' = [heap EXCEPT ![CurrentSample] =
                       SetKey(SetKey(@, "response", Str(r)),
                              "prediction", extract_last_boxed_answer(Str(r)))]
    /\ \E written \in Written :
          WritePart(results_filepath, written, ResultIndex(sample_idx, iteration, TotalSamples))
    /\ ioError' = [raised |-> "IOError", by |-> "append_to_jsonl"]
    /\ pc' = "aborted"
    /\ firstGen' = IF firstGen = -1
                   THEN ResultIndex(sample_idx, iteration, TotalSamples) ELSE firstGen
    /\ UNCHANGED <<harnessVars, unitVars, dataset_exists, dataSeen, wasCut, released, evaluation_data,
                   evaluation_results, results_filepath, iteration, sample_idx, score,
                   task3Vars, device, loaded, gens, stageAHist, failedAt, studentLog>>

\* append_to_jsonl raises in Stage A: it is inside the try block, the handler
\* logs the error and the loop continues
StageAAppendFail ==
    /\ InStageABody
    /\ ~KnowledgeProcessed(sample_idx, knowledge_results)
    /\ chats < MaxChats /\ faults < MaxFaults
    /\ NoDamagedLine(fs[KnowledgeFile])
    /\ chats' = chats + 1
    /\ faults' = faults + 1
    /\ \E r \in TeacherResponses :
        /\ ChatReturns("teacher", TeacherPrompt, r)
        /\ memo' = Remember("teacher", TeacherPrompt, r)
        /\ heap' = [heap EXCEPT ![CurrentSample] =
                       SetKey(SetKey(@, "response", Str(r)),
                              "knowledge", extract_last_knowledge_object(Str(r)))]
    /\ \E written \in Written : WritePart(KnowledgeFile, written, sample_idx)
    /\ ioError' = [raised |-> "IOError", by |-> "append_to_jsonl"]
    /\ attempted' = attempted \cup {sample_idx}
    /\ failed' = failed \cup {sample_idx}
    /\ sample_idx' = sample_idx + 1
    /\ UNCHANGED <<harnessVars, unitVars, dataset_exists, dataSeen, wasCut, released, pc, evaluation_data,
                   evaluation_results, results_filepath, iteration, score, task3Vars,
                   device, loaded, gens, firstGen, prevFailed, failedAt, studentLog>>

\* the process is killed while a loop is inside append_to_jsonl: part of the
\* line is in the file, the memory and the device are gone
KilledInAppend ==
    /\ \/ InLoopBody /\ ~AlreadyProcessed(ResultIndex(sample_idx, iteration, TotalSamples),
                                          evaluation_results)
       \/ InStageABody /\ ~KnowledgeProcessed(sample_idx, knowledge_results)
    /\ chats < MaxChats /\ faults < MaxFaults
    /\ NoDamagedLine(fs[IF pc = "loop" THEN results_filepath ELSE KnowledgeFile])
    /\ chats' = chats + 1
    /\ faults' = faults + 1
    /\ \E r \in (IF pc = "loop" THEN Responses ELSE TeacherResponses) :
        LET backend == IF pc = "loop" THEN LoopBackend ELSE "teacher"
            prompt == IF pc = "loop" THEN LoopPrompt ELSE TeacherPrompt
            record == IF pc = "loop"
                      THEN SetKey(SetKey(heap[CurrentSample], "response", Str(r)),
                                  "prediction", extract_last_boxed_answer(Str(r)))
                      ELSE SetKey(SetKey(heap[CurrentSample], "response", Str(r)),
                                  "knowledge", extract_last_knowledge_object(Str(r)))
            path == IF pc = "loop" THEN results_filepath ELSE KnowledgeFile
            flat == IF pc = "loop" THEN ResultIndex(sample_idx, iteration, TotalSamples)
                    ELSE sample_idx
        IN /\ ChatReturns(backend, prompt, r)
           /\ memo' = Remember(backend, prompt, r)
           /\ \E written \in Written \ {"nothing"} :
                fs' = [fs EXCEPT ![path] = write_part(record, @, written)]
           /\ prov' = [prov EXCEPT ![path] = Append(@, <<sample_idx, iteration>>)]
           /\ tornAt' = [file |-> path, flat |-> flat]
    /\ pc' = "idle"
    /\ heap' = <<>>
    /\ evaluation_data' = <<>>
    /\ evaluation_results' = <<>>
    /\ results_filepath' = NoFile
    /\ iteration' = 0
    /\ sample_idx' = 0
    /\ score' = <<>>
    /\ knowledge_results' = <<>>
    /\ student' = 0
    /\ accuracy_scores' = <<>>
    /\ result' = <<>>
    /\ device' = {}
    /\ released' = {}
    /\ loaded' = 0
    /\ gens' = 0
    /\ firstGen' = -1
    /\ studentLog' = <<>>
    /\ ioError' = NoError
    /\ UNCHANGED <<harnessVars, unitVars, dataset_exists, dataSeen, wasCut, stageAHist, failedAt>>

OutputPath(e) == CASE e = "task1" -> Task1Out [] e = "task2" -> Task2Out
                   [] e = "task3" -> KnowledgeFile

\* the loads at the start of task1, task2 and Stage A: load_jsonl raises
\* JSONDecodeError on the existing output file, or FileNotFoundError on the
\* dataset; nothing catches it
StartLoadFails ==
    /\ pc = "idle"
    /\ ~Loadable(fs[OutputPath(entry)]) \/ ~dataset_exists
    /\ device' = {"teacher"}
    /\ ioError' = [raised |-> IF ~Loadable(fs[OutputPath(entry)]) THEN "JSONDecodeError"
                              ELSE "FileNotFoundError",
                   by |-> "load_jsonl"]
    /\ pc' = "aborted"
    /\ UNCHANGED <<harnessVars, unitVars, dataset_exists, faults, tornAt, dataSeen, wasCut, released, memo,
                   fs, chats, heap, evaluation_data, evaluation_results, results_filepath,
                   iteration, sample_idx, score, task3Vars, prov, loaded, gens, firstGen,
                   stageAHist, failedAt, studentLog>>

\* the load at the start of a student's loop raises JSONDecodeError
StudentLoadFails ==
    /\ pc = "students" /\ student <= Len(Roster)
    /\ ~Loadable(fs[StudentFile(Roster[student])])
    /\ device' = device \cup {Roster[student]}
    /\ ioError' = [raised |-> "JSONDecodeError", by |-> "load_jsonl"]
    /\ results_filepath' = StudentFile(Roster[student])
    /\ pc' = "aborted"
    /\ UNCHANGED <<harnessVars, unitVars, dataset_exists, faults, tornAt, dataSeen, wasCut, released, memo,
                   fs, chats, heap, evaluation_data, evaluation_results, iteration,
                   sample_idx, score, task3Vars, prov, loaded, gens, firstGen, stageAHist,
                   failedAt, studentLog>>

\* the dataset file may be missing
InitFaults == InitPipeline /\ dataset_exists \in BOOLEAN

NextFaults ==
    \/ StartTask1 \/ StartTask2
    \/ LoopSkip \/ LoopGenerate \/ LoopFail \/ LoopNextIteration
    \/ FinishTask1 \/ FinishTask2
    \/ StageAStart \/ StageASkip \/ StageAGenerate \/ StageAFail \/ StageAReturn
    \/ ReleaseTeacher \/ StudentStart \/ StudentFinish \/ Task3Return
    \/ Exit
    \/ LoopAppendFail \/ StageAAppendFail \/ KilledInAppend
    \/ StartLoadFails \/ StudentLoadFails

SpecFaults == InitFaults /\ [][NextFaults]_vars

(* ============================ properties =============================== *)
\* the last loop started by this process has returned its score
LoopReturned == \/ pc = "done"
                \/ pc = "students" /\ student > 1
\* what that loop's aggregator gives on the records of its output file
FileScore ==
    CASE entry = "task1" -> calculate_field_accuracy(load_jsonl(fs[results_filepath]))
      [] entry = "task2" -> calculate_overall_accuracy(load_jsonl(fs[results_filepath]))
      [] entry = "task3" ->
            SetKey(calculate_overall_accuracy(load_jsonl(fs[results_filepath])),
                   "model_name", Roster[student - 1])

TaskOut == IF entry = "task1" THEN Task1Out ELSE Task2Out
TaskDataset == IF entry = "task1" THEN load_jsonl(fs[Task1Data])
               ELSE FlattenTask2(load_jsonl(fs[Task2Data]))

\* C1: in the task1/task2 loop, over any sequence of (possibly aborted) runs on
\* one output file, the line at position i was made for sample i mod N in
\* iteration i div N, and is that sample's record
C1_PositionIsSampleAndIteration ==
    entry \in {"task1", "task2"} =>
        LET N == Len(TaskDataset)
        IN /\ Len(prov[TaskOut]) = Len(fs[TaskOut])
           /\ \A i \in 0..(Len(fs[TaskOut]) - 1) :
                /\ prov[TaskOut][i + 1] = <<i % N, i \div N>>
                /\ json_loads(fs[TaskOut][i + 1])["question"] = TaskDataset[(i % N) + 1]["question"]
                /\ json_loads(fs[TaskOut][i + 1])["prediction"]
                     = extract_last_boxed_answer(json_loads(fs[TaskOut][i + 1])["response"])

\* a resumed run (some records loaded, a failure aborted the run that wrote
\* them) has appended a record of the second iteration
C1_Witness ==
    /\ entry \in {"task1", "task2"} /\ sampling
    /\ pc = "loop" /\ loaded > 0 /\ gens > 0
    /\ Len(fs[TaskOut]) > Len(TaskDataset)

\* the uninterrupted run's output: one record per flat index, holding what the
\* deterministic backend answers to the sample's prompt
MemoResponse(backend, prompt) ==
    IF \E m \in memo : m[1] = backend /\ m[2] = prompt
    THEN (CHOOSE m \in memo : m[1] = backend /\ m[2] = prompt)[3]
    ELSE <<"never asked">>
PromptOf(sample) ==
    CASE entry = "task1" -> build_task1_prompt(sample["question"], sample["field"])
      [] entry = "task2" -> build_task2_prompt(sample["question"], sample["material"])
      [] entry = "task3" ->
            build_guided_student_prompt(sample["question"], sample["material"],
                IF IsStr(sample["knowledge"]) THEN sample["knowledge"]
                ELSE Str(JsonText(sample["knowledge"])))
UninterruptedOutput(data, backend) ==
    [i \in 1..(test_time * Len(data)) |->
        LET sample == data[((i - 1) % Len(data)) + 1]
            r == Str(MemoResponse(backend, PromptOf(sample)))
        IN json_dumps(SetKey(SetKey(sample, "response", r),
                             "prediction", extract_last_boxed_answer(r)))]
LastBackend == IF entry = "task3" THEN Roster[student - 1] ELSE "teacher"

\* C2: with a deterministic backend, whenever a loop that has only ever been
\* run on its output file with one dataset returns (after any cuts of the file
\* to its first k records and any aborted runs), the file is the one an
\* uninterrupted run produces
C2_ResumeGivesUninterruptedOutput ==
    (~sampling /\ LoopReturned /\ Cardinality(dataSeen[results_filepath]) = 1) =>
        fs[results_filepath]
            = UninterruptedOutput(Deref(heap, evaluation_data), LastBackend)

\* the file was cut back and the run that then resumed from a record in the
\* middle has completed
C2_Witness ==
    /\ ~sampling /\ wasCut /\ LoopReturned
    /\ loaded > 0 /\ gens > 0
    /\ Len(fs[results_filepath]) = test_time * Len(evaluation_data)
    /\ Cardinality(dataSeen[results_filepath]) = 1

\* C3 (as claimed): the score a loop returns is the accuracy of the records in
\* its output file
C3_ScoreIsAccuracyOfFile ==
    LoopReturned => score = FileScore

\* C4: in Stage A a failing sample is caught: when the loop has returned, no
\* failed sample is in the result list or among the lines this run appended,
\* the list and the file have the same length, and every sample after a
\* failed one was processed in the same run
C4_StageAFailureSkipsOnlyThatSample ==
    (entry = "task3" /\ pc = "release") =>
        /\ Len(knowledge_results) = Len(fs[KnowledgeFile])
        /\ \A f \in failed :
            /\ evaluation_data[f + 1] \notin Range(knowledge_results)
            /\ \A p \in 1..Len(knowledge_results) :
                 knowledge_results[p] \in Range(evaluation_data)
                    => prov[KnowledgeFile][p][1] # f
            /\ \A j \in (f + 1)..(Len(evaluation_data) - 1) : j \in attempted

\* Stage A has returned after a sample failed and a later one was generated
C4_Witness ==
    /\ entry = "task3" /\ pc = "release"
    /\ \E f \in failed : \E j \in attempted \ failed : j > f

\* C5 (as claimed): a sample that failed in the previous Stage A run is
\* processed again by this one
C5_FailedSampleIsRetried ==
    (entry = "task3" /\ pc = "release") => prevFailed \subseteq attempted

\* C6: at most one backend holds the device; the teacher holds it until Stage A
\* has returned and no longer when a student is constructed; between two
\* students nothing holds it
C6_OneBackendOnDevice ==
    /\ Cardinality(device) <= 1
    /\ (pc \in {"stageA", "release"} => device = {"teacher"})
    /\ (entry = "task3" /\ pc = "students" => device = {})
    /\ (entry = "task3" /\ pc = "loop" => device = {Roster[student]})

\* the second student of the roster is generating
C6_Witness ==
    entry = "task3" /\ pc = "loop" /\ student = 2 /\ gens > 0

\* C7: while and after the students run, Stage A's dataset is what Stage A
\* wrote (no student's response or prediction in it), a student shares no
\* sample with it, and a student starts from exactly Stage A's output
C7_StudentsLeaveStageADataAlone ==
    (entry = "task3" /\ pc \in {"students", "loop", "aborted", "done"}) =>
        /\ Deref(heap, knowledge_results) = load_jsonl(fs[KnowledgeFile])
        /\ \A a \in Range(knowledge_results) : "prediction" \notin DOMAIN heap[a]
        /\ (results_filepath # NoFile =>
                Range(evaluation_data) \cap Range(knowledge_results) = {})
        /\ (pc = "loop" /\ firstGen = -1 =>
                Deref(heap, evaluation_data) = Deref(heap, knowledge_results))

\* the second student starts on its copy after the first one has written
\* responses and predictions into its own
C7_Witness ==
    /\ entry = "task3" /\ pc = "loop" /\ student = 2 /\ firstGen = -1
    /\ Len(fs[StudentFile(Roster[1])]) > 0
    /\ Len(knowledge_results) > 0

\* C8: the result's student_scores has exactly the roster's names as keys, each
\* with the overall accuracy that student's loop returned (with one iteration:
\* the accuracy of the student's file); overall is their mean; the students
\* ran in roster order
C8_StudentScoresAndMean ==
    (entry = "task3" /\ pc = "done") =>
        /\ DOMAIN result.student_scores = Range(Roster)
        /\ [i \in 1..Len(studentLog) |-> studentLog[i][1]] = Roster
        /\ \A i \in 1..Len(Roster) :
            /\ result.student_scores[Roster[i]] = studentLog[i][2]
            /\ test_time = 1 =>
                 result.student_scores[Roster[i]]
                    = calculate_overall_accuracy(
                          load_jsonl(fs[StudentFile(Roster[i])])).overall
        /\ RatSum(result.student_scores, Range(Roster))
              = Ratio(result.overall[1] * Len(Roster), result.overall[2])

\* the pipeline has returned, two students having different accuracies
C8_Witness ==
    /\ entry = "task3" /\ pc = "done"
    /\ result.student_scores[Roster[1]] # result.student_scores[Roster[2]]
    /\ result.overall # <<0, 1>>

\* C9: a failure in a task1/task2/student loop aborts it at once (the file is
\* as it was, the failed flat index is the number of records); the next run's
\* loop on that file loads exactly those records unchanged and processes the
\* failed flat index first
C9_FailureAbortsAndResumesAtFailedIndex ==
    /\ pc = "aborted" =>
          /\ ~failedAt.old /\ failedAt.file = results_filepath
          /\ fs[results_filepath] = failedAt.prefix
          /\ failedAt.flat = Len(failedAt.prefix)
    /\ (failedAt.old /\ failedAt.file = results_filepath) =>
          /\ loaded = failedAt.flat
          /\ SubSeq(fs[results_filepath], 1, loaded) = failedAt.prefix
          /\ firstGen \in {-1, failedAt.flat}

\* the run after a failure at a flat index above 0 has generated that index
C9_Witness ==
    /\ failedAt.old /\ failedAt.file = results_filepath
    /\ failedAt.flat > 0 /\ firstGen = failedAt.flat /\ gens > 0

\* C10: a loop that loads R >= test_time * N records generates nothing, leaves
\* the file as loaded, and returns the aggregate of the loaded records
C10_NothingToDoIsNoOp ==
    (results_filepath # NoFile /\ loaded >= test_time * Len(evaluation_data)) =>
        /\ gens = 0 /\ firstGen = -1
        /\ Len(evaluation_results) = loaded
        /\ load_jsonl(fs[results_filepath]) = Deref(heap, evaluation_results)
        /\ LoopReturned => score = FileScore

\* a task1/task2 run over a complete output file has returned
C10_Witness ==
    /\ entry \in {"task1", "task2"} /\ pc = "done"
    /\ loaded > 0 /\ loaded = test_time * Len(evaluation_data)

(* =============== the scoring functions called on their own ============= *)
\* the pipeline is not running
PipelineOff ==
    /\ entry = "none" /\ test_time = 1 /\ sampling = FALSE
    /\ fs = [f \in Files |-> <<>>]
    /\ memo = {} /\ pc = "off" /\ chats = 0 /\ heap = <<>>
    /\ evaluation_data = <<>> /\ evaluation_results = <<>>
    /\ results_filepath = NoFile /\ iteration = 0 /\ sample_idx = 0
    /\ score = <<>> /\ knowledge_results = <<>> /\ student = 0
    /\ accuracy_scores = <<>> /\ result = <<>> /\ device = {}
    /\ prov = [f \in Files |-> <<>>] /\ loaded = 0 /\ gens = 0 /\ firstGen = -1
    /\ attempted = {} /\ failed = {} /\ prevFailed = {} /\ failedAt = NoFail
    /\ studentLog = <<>> /\ dataSeen = [f \in Files |-> {}] /\ wasCut = FALSE
    /\ released = {}
    /\ dataset_exists = TRUE /\ faults = 0 /\ ioError = NoError /\ tornAt = NotTorn

pipelineVars == <<harnessVars, memo, fs, pc, chats, heap, evaluation_data,
                  evaluation_results, results_filepath, iteration, sample_idx, score,
                  task3Vars, device, prov, loaded, gens, firstGen, stageAHist, failedAt,
                  studentLog, dataSeen, wasCut, released, faultVars>>

SeqsUpTo(S, n) == UNION {[1..k -> S] : k \in 0..n}

\* predictions are labels or absent, answers are labels
PredictionValues == {PyNone, Str(<<"a">>), Str(<<"B">>), Str(<<"C">>)}
AnswerValues == {Str(<<"A">>), Str(<<"B">>), Str(<<"C">>)}

InitAccuracy ==
    /\ fn = "calculate_accuracy"
    /\ \E p \in SeqsUpTo(PredictionValues, MaxLen), a \in SeqsUpTo(AnswerValues, MaxLen) :
          args = [predictions |-> p, answers |-> a]
    /\ parts = <<>>

CallAccuracy ==
    /\ fn = "calculate_accuracy" /\ ~returned.done
    /\ returned' = Returns(calculate_accuracy(args.predictions, args.answers))
    /\ UNCHANGED <<pipelineVars, fn, args, parts, storeVars>>

\* task1 records as the aggregator reads them
RecordValues ==
    {[field |-> Str(<<f>>), sub_field |-> Str(<<sf>>), answer |-> Str(<<a>>), prediction |-> p] :
        f \in {"f1", "f2"}, sf \in {"s1", "s2"}, a \in {"A", "B"},
        p \in {PyNone, Str(<<"a">>)}}

InitFieldAccuracy ==
    /\ fn = "calculate_field_accuracy"
    /\ \E r \in SeqsUpTo(RecordValues, MaxRecords) : args = [results |-> r]
    /\ parts = <<>>

CallFieldAccuracy ==
    /\ fn = "calculate_field_accuracy" /\ ~returned.done
    /\ returned' = Returns(calculate_field_accuracy(args.results))
    /\ UNCHANGED <<pipelineVars, fn, args, parts, storeVars>>

\* texts are made of spans; a span has a shape, the label or value it carries
\* (absent if none), the content of its boxed command, and its tokens
RECURSIVE Flatten(_)
Flatten(ps) == IF ps = <<>> THEN <<>> ELSE Head(ps).toks \o Flatten(Tail(ps))

BoxedSpan(shape, L) ==
    LET t == <<L, ".", " ", "x">>
        content ==
            CASE shape = "bare" -> <<L>>
              [] shape = "bare_spaced" -> <<" ", L, " ">>
              [] shape = "text" -> <<L>>
              [] shape = "text_dot" -> t
              [] shape = "dot" -> t
              [] shape = "braced_dot" -> t
              [] shape = "dot_newline" -> t \o <<"\n", "x">>
              [] shape = "text_newline" -> t \o <<"\n", "x">>
              [] shape = "text_nested_end" -> <<L, ".", " ", "{", "x", "}">>
              [] shape = "text_nested_mid" -> <<L, ".", " ", "{", "x", "}", " ", "x">>
        toks ==
            CASE shape \in {"bare", "bare_spaced", "dot", "dot_newline"} ->
                    <<BOXED>> \o content \o <<"}">>
              [] shape = "braced_dot" -> <<BOXED, "{">> \o content \o <<"}", "}">>
              [] OTHER -> <<BOXED, TEXT>> \o content \o <<"}", "}">>
    IN [shape |-> shape, label |-> Str(<<L>>), content |-> content, toks |-> toks]

\* the shapes the extractor names: a text wrapper, a letter with trailing
\* text (with or without a stray brace), a bare letter
RecognizedShapes == {"bare", "bare_spaced", "text", "text_dot", "dot", "braced_dot"}
NewlineShapes == {"dot_newline", "text_newline"}
NestedShapes == {"text_nested_end", "text_nested_mid"}

\* boxed commands whose content is no label, and text with no boxed command
UnlabelledSpans ==
    { [shape |-> "text_blank", label |-> PyNone, content |-> <<" ">>,
       toks |-> <<BOXED, TEXT, " ", "}", "}">>],
      [shape |-> "text_empty", label |-> PyNone, content |-> <<>>,
       toks |-> <<BOXED, TEXT, "}", "}">>],
      [shape |-> "other", label |-> PyNone, content |-> <<"x">>,
       toks |-> <<BOXED, "x", "}">>] }
PlainSpans ==
    { [shape |-> "plain", label |-> PyNone, content |-> <<>>, toks |-> <<"x", " ">>],
      [shape |-> "plain", label |-> PyNone, content |-> <<>>,
       toks |-> <<TEXT, "A", "}", "\n">>] }

BoxedParts ==
    {BoxedSpan(shape, L) : shape \in RecognizedShapes, L \in {"A", "B"}}
    \cup {BoxedSpan(shape, "B") : shape \in NewlineShapes \cup NestedShapes}
    \cup UnlabelledSpans \cup PlainSpans

InitBoxed ==
    /\ fn = "extract_last_boxed_answer"
    /\ \E ps \in SeqsUpTo(BoxedParts, MaxParts) :
          /\ parts = ps
          /\ args = [text |-> Str(Flatten(ps))]

CallBoxed ==
    /\ fn = "extract_last_boxed_answer" /\ ~returned.done
    /\ returned' = Returns(extract_last_boxed_answer(args.text))
    /\ UNCHANGED <<pipelineVars, fn, args, parts, storeVars>>

\* teacher output: fenced JSON blocks with a knowledge field (a string or a
\* nested object), a fenced JSON block without one, a bare knowledge object
\* (its value a string or a nested object), and text with no knowledge field
FencedBlock(json, value) ==
    [shape |-> "fenced", label |-> value, content |-> json,
     toks |-> <<FENCE_JSON, "\n">> \o json \o <<"\n", FENCE, "\n">>]

KnowledgeParts ==
    { FencedBlock(<<"{", KNOWLEDGE_KEY, " ", QUOTE, k, QUOTE, "}">>, Str(<<k>>)) :
        k \in {"k1", "k2"} }
    \cup { FencedBlock(<<"{", KNOWLEDGE_KEY, " ", "{", KNOWLEDGE_KEY, " ", QUOTE, "k3", QUOTE,
                         "}", "}">>,
                       PyDict(<< <<"knowledge", Str(<<"k3">>)>> >>)),
           [shape |-> "fenced_other", label |-> PyNone, content |-> <<"{", "}">>,
            toks |-> <<FENCE_JSON, "\n", "{", "}", "\n", FENCE, "\n">>],
           [shape |-> "bare", label |-> Str(<<"z">>),
            content |-> <<"{", KNOWLEDGE_KEY, " ", QUOTE, "z", QUOTE, "}">>,
            toks |-> <<"{", KNOWLEDGE_KEY, " ", QUOTE, "z", QUOTE, "}", "\n">>],
           [shape |-> "bare_nested", label |-> PyDict(<< <<"knowledge", Str(<<"k3">>)>> >>),
            content |-> <<"{", KNOWLEDGE_KEY, " ", "{", KNOWLEDGE_KEY, " ", QUOTE, "k3", QUOTE,
                          "}", "}">>,
            toks |-> <<"{", KNOWLEDGE_KEY, " ", "{", KNOWLEDGE_KEY, " ", QUOTE, "k3", QUOTE,
                       "}", "}", "\n">>],
           [shape |-> "plain", label |-> PyNone, content |-> <<>>, toks |-> <<"x", " ">>],
           [shape |-> "plain", label |-> PyNone, content |-> <<>>,
            toks |-> <<"{", QUOTE, "x", QUOTE, "}">>] }

InitKnowledge ==
    /\ fn = "extract_last_knowledge_object"
    /\ \E ps \in SeqsUpTo(KnowledgeParts, MaxParts) :
          /\ parts = ps
          /\ args = [text |-> Str(Flatten(ps))]

CallKnowledge ==
    /\ fn = "extract_last_knowledge_object" /\ ~returned.done
    /\ returned' = Returns(extract_last_knowledge_object(args.text))
    /\ UNCHANGED <<pipelineVars, fn, args, parts, storeVars>>

InitMetrics ==
    /\ PipelineOff
    /\ returned = NotCalled
    /\ disk = Missing /\ appended = 0 /\ torn = NoTorn
    /\ (InitAccuracy \/ InitFieldAccuracy \/ InitBoxed \/ InitKnowledge)

NextMetrics == CallAccuracy \/ CallFieldAccuracy \/ CallBoxed \/ CallKnowledge

SpecMetrics == InitMetrics /\ [][NextMetrics]_vars

\* the call has returned
Called(f) == fn = f /\ returned.done

(* ------------------- a JSONL file written and loaded ------------------- *)
\* records as the loops append them: strings (one with a newline, a quote, a
\* backslash and a brace in it, one empty, one of blanks), None, and a nested
\* dict holding a list
Key(k) == <<k>>
StorageItems ==
    { PyDict(<< <<Key("question"), Str(<<"q">>)>>, <<Key("prediction"), PyNone>> >>),
      PyDict(<< <<Key("response"), Str(<<"x", "\n", QUOTE, BACKSLASH, "}">>)>> >>),
      PyDict(<< <<Key("knowledge"),
                  PyDict(<< <<Key("k"), PyList(<<Str(<<>>), PyNone>>)>> >>)>>,
                <<Key("answer"), Str(<<" ", ",">>)>> >>),
      PyDict(<<>>) }

InitStorage ==
    /\ PipelineOff
    /\ fn = "load_jsonl"
    /\ \E items \in SeqsUpTo(StorageItems, MaxRecords) : args = [items |-> items]
    /\ parts = <<>>
    /\ returned = NotCalled
    /\ disk = Missing /\ appended = 0 /\ torn = NoTorn

\* append_to_jsonl(item, file_path) with the next record
CallAppend ==
    /\ fn = "load_jsonl" /\ ~returned.done
    /\ appended < Len(args.items)
    /\ disk' = append_to_jsonl_text(args.items[appended + 1], disk)
    /\ appended' = appended + 1
    /\ UNCHANGED <<pipelineVars, fn, args, parts, returned, torn>>

\* the process is killed inside append_to_jsonl: the file is created and some
\* of the line, at least one character and at most all but its newline, has
\* reached it
CrashInAppend ==
    /\ fn = "load_jsonl" /\ ~returned.done
    /\ appended < Len(args.items) /\ torn = NoTorn
    /\ \E cut \in 1..Len(json_dumps_text(args.items[appended + 1])) :
        /\ disk' = SubSeq(append_to_jsonl_text(args.items[appended + 1], disk), 1,
                          Len(IF disk = Missing THEN <<>> ELSE disk) + cut)
        /\ torn' = [at |-> appended + 1, cut |-> cut]
    /\ appended' = appended + 1
    /\ UNCHANGED <<pipelineVars, fn, args, parts, returned>>

\* load_jsonl(file_path)
CallLoad ==
    /\ fn = "load_jsonl" /\ ~returned.done
    /\ returned' = Returns(load_jsonl_text(disk))
    /\ UNCHANGED <<pipelineVars, fn, args, parts, storeVars>>

NextStorage == CallAppend \/ CrashInAppend \/ CallLoad

SpecStorage == InitStorage /\ [][NextStorage]_vars

\* C21: after N >= 1 records have been appended one at a time to a file that
\* did not exist, load_jsonl returns exactly those N records, in the order of
\* the appends, each equal to the record appended
C21_AppendThenLoadRoundTrip ==
    (Called("load_jsonl") /\ torn = NoTorn /\ appended >= 1) =>
        returned.value = Loaded(SubSeq(args.items, 1, appended))

\* three records have been appended and loaded, among them the one whose string
\* holds a newline, a quote and a backslash, and the one with the nested dict
C21_Witness ==
    /\ Called("load_jsonl") /\ torn = NoTorn /\ appended = 3
    /\ \E i, j \in 1..3 :
        /\ i # j
        /\ DictGet(args.items[i], Key("response"), PyNone) = Str(<<"x", "\n", QUOTE, BACKSLASH, "}">>)
        /\ DictGet(args.items[j], Key("knowledge"), PyNone).t = "dict"
    /\ returned.value.raised = "none"
    /\ Len(returned.value.data) = 3

\* what a torn line does to the next load, whatever was appended after it: cut
\* inside the record's JSON text the load raises; cut between the JSON text
\* and its newline the line loads as a record as long as it is the last one,
\* and the load raises once another record has been appended after it
TornLineOnLoad ==
    (Called("load_jsonl") /\ torn # NoTorn) =>
        IF torn.cut < Len(json_dumps_text(args.items[torn.at])) \/ appended > torn.at
        THEN returned.value = Raised("JSONDecodeError")
        ELSE returned.value = Loaded(SubSeq(args.items, 1, appended))

(* ================== properties of the scoring functions ================ *)
\* equality of two labels ignoring case, letter by letter
FoldCase(c) == CASE c = "A" -> "a" [] c = "B" -> "b" [] c = "C" -> "c" [] c = "D" -> "d"
                 [] OTHER -> c
SameIgnoringCase(prediction, answer) ==
    /\ prediction # PyNone
    /\ Len(prediction.v) = Len(answer.v)
    /\ \A i \in 1..Len(answer.v) : FoldCase(prediction.v[i]) = FoldCase(answer.v[i])
CorrectPositions ==
    {i \in 1..Len(args.predictions) : SameIgnoringCase(args.predictions[i], args.answers[i])}
EqualLengths == Len(args.predictions) = Len(args.answers)

\* C11: on lists of equal length, calculate_accuracy returns the number of
\* positions whose prediction is present and equals the answer ignoring case,
\* divided by the number of positions; an absent prediction is a position that
\* is not correct; [a, absent, C] against [A, B, C] gives 2/3
C11_AccuracyIsCorrectOverPositions ==
    (Called("calculate_accuracy") /\ EqualLengths /\ Len(args.predictions) > 0) =>
        /\ returned.value # ValueError
        /\ returned.value[1] * Len(args.predictions)
              = Cardinality(CorrectPositions) * returned.value[2]
        /\ returned.value[2] > 0
        /\ (/\ args.predictions = <<Str(<<"a">>), PyNone, Str(<<"C">>)>>
            /\ args.answers = <<Str(<<"A">>), Str(<<"B">>), Str(<<"C">>)>>)
               => returned.value = <<2, 3>>

\* the call on [a, absent, C] and [A, B, C] has returned
C11_Witness ==
    /\ Called("calculate_accuracy")
    /\ args.predictions = <<Str(<<"a">>), PyNone, Str(<<"C">>)>>
    /\ args.answers = <<Str(<<"A">>), Str(<<"B">>), Str(<<"C">>)>>

InUnitInterval(x) == x[2] > 0 /\ 0 <= x[1] /\ x[1] <= x[2]
EveryPredictionMatches ==
    \A i \in 1..Len(args.predictions) : SameIgnoringCase(args.predictions[i], args.answers[i])

\* C12 (as claimed): on lists of equal length the result is in [0,1], is 1.0
\* if and only if every prediction matches its answer ignoring case, and is
\* 0.0 when the list of predictions is empty
C12_AsClaimed ==
    (Called("calculate_accuracy") /\ EqualLengths) =>
        /\ InUnitInterval(returned.value)
        /\ (returned.value = <<1, 1>> <=> EveryPredictionMatches)
        /\ (args.predictions = <<>> => returned.value = <<0, 1>>)

\* C12 (amended): on lists of equal length the result is in [0,1], is 0.0
\* when the list of predictions is empty, and on a non-empty list is 1.0 if
\* and only if every prediction matches its answer ignoring case
C12_AccuracyBounds ==
    (Called("calculate_accuracy") /\ EqualLengths) =>
        /\ InUnitInterval(returned.value)
        /\ (returned.value = <<1, 1>>
               <=> (args.predictions # <<>> /\ EveryPredictionMatches))
        /\ (args.predictions = <<>> => returned.value = <<0, 1>>)

\* a call whose predictions all match, one of them in another case, returned 1.0
C12_Witness ==
    /\ Called("calculate_accuracy") /\ EqualLengths
    /\ Len(args.predictions) >= 2 /\ returned.value = <<1, 1>>
    /\ \E i \in 1..Len(args.predictions) : args.predictions[i] # args.answers[i]

\* C13: on lists of different lengths calculate_accuracy raises ValueError and
\* returns no score, whatever the lists hold
C13_LengthMismatchRaises ==
    (Called("calculate_accuracy") /\ ~EqualLengths) => returned.value = ValueError

\* the call on two non-empty lists of different lengths has raised
C13_Witness ==
    /\ Called("calculate_accuracy")
    /\ Len(args.predictions) > 0 /\ Len(args.answers) > Len(args.predictions)
    /\ returned.value = ValueError

\* the accuracy over the records of a partition
AccuracyOf(records) ==
    calculate_accuracy(Column(records, "prediction"), Column(records, "answer"))
RecordsOfField(records, field) ==
    LET InField(r) == r.field = field IN SelectSeq(records, InField)
RecordsOfSubField(records, field, sub_field) ==
    LET InPartition(r) == r.field = field /\ r.sub_field = sub_field
    IN SelectSeq(records, InPartition)

\* C14 (as claimed): calculate_field_accuracy returns a top-level overall equal
\* to the accuracy over all records and, for every field present, an entry
\* with overall = the accuracy over the field's records and, for every
\* sub_field seen in the field, sub_field name = the accuracy over the records
\* of that field and sub_field
C14_FieldAndSubFieldScores ==
    Called("calculate_field_accuracy") =>
        LET records == args.results
            scores == returned.value
        IN /\ scores[<<"overall">>] = AccuracyOf(records)
           /\ \A i \in 1..Len(records) :
                LET field == records[i].field
                    sub_field == records[i].sub_field
                IN /\ field.v \in DOMAIN scores
                   /\ scores[field.v][<<"overall">>]
                         = AccuracyOf(RecordsOfField(records, field))
                   /\ sub_field.v \in DOMAIN scores[field.v]
                   /\ scores[field.v][sub_field.v]
                         = AccuracyOf(RecordsOfSubField(records, field, sub_field))

\* what the two extractors can return: a label or absent; a string or a
\* decoded JSON value
IsLabelOrAbsent(x) == x = PyNone \/ (IsStr(x) /\ Len(x.v) = 1 /\ x.v[1] \in Letters)
IsPyValue(x) == x.t \in {"str", "none", "list", "dict"}

\* C15: on a text with no boxed command extract_last_boxed_answer returns
\* absent, on a text with no knowledge key extract_last_knowledge_object
\* returns the empty string, and on every text both return a value
C15_NoMarkerGivesAbsentOrEmpty ==
    /\ Called("extract_last_boxed_answer") =>
          /\ IsLabelOrAbsent(returned.value)
          /\ BOXED \notin Range(args.text.v) => returned.value = PyNone
    /\ Called("extract_last_knowledge_object") =>
          /\ IsPyValue(returned.value)
          /\ KNOWLEDGE_KEY \notin Range(args.text.v) => returned.value = Str(<<>>)

\* the knowledge extractor has returned on a text that holds a fenced JSON
\* block and braces but no knowledge key
C15_Witness ==
    /\ Called("extract_last_knowledge_object")
    /\ KNOWLEDGE_KEY \notin Range(args.text.v)
    /\ FENCE_JSON \in Range(args.text.v)
    /\ Len(parts) >= 2
    /\ returned.value = Str(<<>>)

LastPart == parts[Len(parts)]

\* C16: when the last span of a text is a boxed command of a recognized shape,
\* whatever spans come before it (boxed commands of any shape, or none), the
\* label returned is the one returned for that last span alone, its letter
C16_OnlyLastSpanCounts ==
    (Called("extract_last_boxed_answer") /\ parts # <<>>
        /\ LastPart.shape \in RecognizedShapes) =>
        /\ returned.value = extract_last_boxed_answer(Str(LastPart.toks))
        /\ returned.value = LastPart.label

\* two boxed commands of different recognized shapes with label A come
\* before a last one with label B
C16_Witness ==
    /\ Called("extract_last_boxed_answer") /\ Len(parts) = 3
    /\ \A i \in 1..2 : parts[i].shape \in RecognizedShapes /\ parts[i].label = Str(<<"A">>)
    /\ parts[1].shape # parts[2].shape
    /\ LastPart.shape \in RecognizedShapes /\ LastPart.label = Str(<<"B">>)
    /\ returned.value = Str(<<"B">>)

\* the boxed commands of a text, in order, and the label its content stands for
BoxedCommands == SelectSeq(parts, LAMBDA part : part.shape # "plain")
ContentLabel(content) ==
    LET c == Strip(content)
    IN IF Len(c) = 1 /\ c[1] \in Letters THEN Str(c)
       ELSE IF Len(c) >= 2 /\ c[1] \in Letters /\ c[2] \in {".", " ", "\n"}
       THEN Str(<<c[1]>>)
       ELSE PyNone

\* C17 (as claimed): the result is decided by the last boxed command of the
\* text alone: its stripped content gives the letter if it is a letter or a
\* letter followed by a dot or whitespace, and absent otherwise (an empty or
\* blank text wrapper included), whatever earlier boxed commands hold; stated
\* for texts whose boxed content has no newline and no nested braces
C17_LastOccurrenceDecides ==
    (Called("extract_last_boxed_answer") /\ BoxedCommands # <<>>
        /\ \A i \in 1..Len(parts) : parts[i].shape \notin NewlineShapes \cup NestedShapes) =>
        returned.value = ContentLabel(BoxedCommands[Len(BoxedCommands)].content)

\* C18 (as claimed): for a text that is one boxed command whose content is a
\* letter, a dot or whitespace, and trailing text with a newline in it, with
\* or without a text wrapper, the letter is returned
C18_ContentMaySpanLines ==
    (Called("extract_last_boxed_answer") /\ Len(parts) = 1
        /\ LastPart.shape \in NewlineShapes) =>
        returned.value = LastPart.label

\* C19 (as claimed): for a text that is one boxed command with a text wrapper
\* whose content is a letter, a dot and trailing text holding a balanced pair
\* of braces, at its end or before its end, the letter is returned
C19_NestedBracesInText ==
    (Called("extract_last_boxed_answer") /\ Len(parts) = 1
        /\ LastPart.shape \in NestedShapes) =>
        returned.value = LastPart.label

\* the fenced JSON blocks of a text that have a knowledge field, in order
FencedKnowledge == SelectSeq(parts, LAMBDA part : part.shape = "fenced")

\* C20 (as claimed): when a text holds a fenced JSON block with a knowledge
\* field, extract_last_knowledge_object returns the knowledge value of the
\* last such block, whatever else the text holds before or after it
C20_FencedBlockPreferred ==
    (Called("extract_last_knowledge_object") /\ FencedKnowledge # <<>>) =>
        returned.value = FencedKnowledge[Len(FencedKnowledge)].label

\* the knowledge objects of a text that stand outside a fence, in order
BareKnowledge == SelectSeq(parts, LAMBDA part : part.shape \in {"bare", "bare_nested"})
Unfenced == \A i \in 1..Len(parts) : parts[i].shape \notin {"fenced", "fenced_other"}

\* C30 (as claimed): in a text without fences, a bare knowledge object whose
\* value is a nested object is captured up to its own closing brace and
\* parsed: when it is the last knowledge object of the text, the nested
\* object is returned
C30_BareNestedObjectCapturedWhole ==
    (Called("extract_last_knowledge_object") /\ Unfenced /\ BareKnowledge # <<>>
        /\ BareKnowledge[Len(BareKnowledge)].shape = "bare_nested") =>
        returned.value = BareKnowledge[Len(BareKnowledge)].label

(* ======================= properties of the storage ===================== *)
\* C22 (as claimed): a storage exception, load_jsonl raising on a missing
\* dataset or on an output file that does not parse, or append_to_jsonl
\* raising while a record is appended, ends the run in every loop: once it is
\* raised the process is on its way out with the error
C22_StorageErrorsEndTheRun ==
    ioError # NoError => pc = "aborted"

\* the part of it that holds: every storage exception outside Stage A's loop
StorageErrorsOutsideStageA ==
    (ioError # NoError /\ pc # "aborted") =>
        /\ ioError.by = "append_to_jsonl"
        /\ entry = "task3" /\ pc \in {"stageA", "release", "students", "loop", "done"}
        /\ failed # {}

\* the loop running now is the one whose output file holds the damaged line
ResumedAfterTornLine == pc = "loop" /\ results_filepath = tornAt.file

\* C23 (as claimed): after an append to the output file of a task1, task2 or
\* student loop stopped part-way, whether inside the record's JSON text or
\* between the JSON text and its newline, a later run that gets into its loop
\* has not counted the unfinished line: its resume cursor is at most the flat
\* index of that record, which it therefore does not skip
C23_TornLineIsNotCounted ==
    ResumedAfterTornLine => loaded <= tornAt.flat

\* the part of it that holds: a line cut inside the JSON text never lets a run
\* into its loop
CutLineStopsTheRun ==
    \A f \in Files :
        (\E i \in 1..Len(fs[f]) : IsDamaged(fs[f][i]) /\ fs[f][i].torn = "cut") =>
            ~(pc = "loop" /\ results_filepath = f)

(* ========== the loops with a backend that never fails (fair) =========== *)
\* the run starts on output files a former run of the same loop on the same
\* dataset has left: R records, the records of the flat indices 0..R-1
LoopRecord(sample, r) ==
    SetKey(SetKey(sample, "response", Str(r)), "prediction", extract_last_boxed_answer(Str(r)))
KnowledgeRecord(sample, r) ==
    SetKey(SetKey(sample, "response", Str(r)), "knowledge", extract_last_knowledge_object(Str(r)))
RECURSIVE Outstanding(_, _, _)
Outstanding(R, files, total) ==
    IF files = {} THEN 0
    ELSE LET f == CHOOSE x \in files : TRUE
         IN (total - R[f]) + Outstanding(R, files \ {f}, total)
BackendOf(f) == IF entry = "task3" THEN f[3] ELSE "teacher"

\* what the teacher answered in Stage A
StageAAnswer == <<FENCE_JSON, "\n", "{", KNOWLEDGE_KEY, " ", QUOTE, "k", QUOTE, "}", "\n", FENCE>>
\* the dataset the loop is given: the task's samples, or for a student the
\* records of Stage A, whose teacher answered t for every sample
LoopDataset(e, n, t) ==
    CASE e = "task1" -> load_jsonl(DatasetFile(e, n))
      [] e = "task2" -> FlattenTask2(load_jsonl(DatasetFile(e, n)))
      [] e = "task3" -> [i \in 1..n |-> KnowledgeRecord(load_jsonl(DatasetFile(e, n))[i], t)]

InitLoop ==
    /\ entry \in {"task1", "task2", "task3"}
    /\ test_time \in 1..MaxTestTime
    /\ sampling \in BOOLEAN
    /\ \E n \in 1..MaxSamples, r \in Responses :
        \E data \in {LoopDataset(entry, n, StageAAnswer)} :
        \E records \in {[j \in 1..(test_time * Len(data)) |->
                            json_dumps(LoopRecord(data[((j - 1) % Len(data)) + 1], r))]} :
        \E R \in [OutputFiles -> 0..Len(records)] :
            /\ Outstanding(R, OutputFiles, Len(records)) <= MaxOutstanding
            /\ fs = [f \in Files |->
                       CASE f = DataPath(entry) -> DatasetFile(entry, n)
                         [] f = KnowledgeFile /\ entry = "task3" ->
                                [i \in 1..Len(data) |-> json_dumps(data[i])]
                         [] f \in OutputFiles -> SubSeq(records, 1, R[f])
                         [] OTHER -> <<>>]
            /\ prov = [f \in Files |->
                         CASE f = KnowledgeFile /\ entry = "task3" ->
                                [i \in 1..Len(data) |-> <<i - 1, 0>>]
                           [] f \in OutputFiles ->
                                [j \in 1..R[f] |-> <<(j - 1) % Len(data), (j - 1) \div Len(data)>>]
                           [] OTHER -> <<>>]
            /\ memo = IF sampling THEN {}
                      ELSE {<<BackendOf(x[1]), PromptOf(data[((x[2] - 1) % Len(data)) + 1]), r>> :
                              x \in {y \in OutputFiles \X (1..Len(records)) : y[2] <= R[y[1]]}}
    /\ pc = "idle" /\ chats = 0 /\ heap = <<>>
    /\ evaluation_data = <<>> /\ evaluation_results = <<>>
    /\ results_filepath = NoFile /\ iteration = 0 /\ sample_idx = 0
    /\ score = <<>> /\ knowledge_results = <<>> /\ student = 0
    /\ accuracy_scores = <<>> /\ result = <<>> /\ device = {}
    /\ loaded = 0 /\ gens = 0 /\ firstGen = -1
    /\ attempted = {} /\ failed = {} /\ prevFailed = {} /\ failedAt = NoFail
    /\ studentLog = <<>> /\ dataSeen = [f \in Files |-> {}] /\ wasCut = FALSE
    /\ released = {}
    /\ dataset_exists = TRUE /\ faults = 0 /\ ioError = NoError /\ tornAt = NotTorn
    /\ fn = "none" /\ args = <<>> /\ parts = <<>> /\ returned = NotCalled
    /\ disk = Missing /\ appended = 0 /\ torn = NoTorn

\* no step fails: neither the backend nor the storage
NextLoop ==
    \/ StartTask1 \/ StartTask2
    \/ LoopSkip \/ LoopGenerate \/ LoopNextIteration
    \/ FinishTask1 \/ FinishTask2
    \/ StageAStart \/ ReleaseTeacher \/ StudentStart \/ StudentFinish \/ Task3Return

\* The control flow of NextLoop: where the process stands and where the step
\* takes it.  Every step of NextLoop is such a step, and one is possible
\* exactly when a step of NextLoop is.
Proceeds ==
    \/ /\ pc = "idle"
       /\ pc' \in {"loop", "release"} /\ iteration' = 0 /\ sample_idx' = 0
    \/ /\ InLoopBody
       /\ \/ AlreadyProcessed(ResultIndex(sample_idx, iteration, TotalSamples), evaluation_results)
          \/ chats < MaxChats
       /\ sample_idx' = sample_idx + 1 /\ UNCHANGED <<pc, iteration>>
    \/ /\ pc = "loop" /\ iteration < test_time /\ sample_idx = TotalSamples
       /\ iteration' = iteration + 1 /\ sample_idx' = 0 /\ UNCHANGED pc
    \/ /\ LoopEnded
       /\ pc' = (IF entry = "task3" THEN "students" ELSE "done")
       /\ UNCHANGED <<iteration, sample_idx>>
    \/ /\ pc = "release"
       /\ pc' = "students" /\ UNCHANGED <<iteration, sample_idx>>
    \/ /\ pc = "students" /\ student <= Len(Roster)
       /\ pc' = "loop" /\ iteration' = 0 /\ sample_idx' = 0
    \/ /\ pc = "students" /\ student > Len(Roster)
       /\ pc' = "done" /\ UNCHANGED <<iteration, sample_idx>>

\* the process is one thread of control: when it has a statement to execute,
\* it executes it
SpecLoop == InitLoop /\ [][NextLoop]_vars /\ WF_<<pc, iteration, sample_idx>>(Proceeds)

\* every step is a step of the control flow
StepsProceed == [][Proceeds]_vars

\* the loop entered for the s-th student (s = 0 in task1 and task2) has returned
LoopHasReturned(s) ==
    IF entry = "task3" THEN pc \in {"students", "done"} /\ student = s + 1 ELSE pc = "done"

\* C24: with a backend that never fails, a task1/task2/student loop entered
\* with R <= test_time * N records returns; when it has, it has made
\* test_time * N - R generations, the first for flat index R, and the file
\* holds test_time * N records, the one at position j made for sample j mod N
\* in iteration j div N and holding that sample's question
C24_LoopRunsToCompletion ==
    /\ \A s \in 0..NumStudents : (pc = "loop" /\ student = s) ~> LoopHasReturned(s)
    /\ [](LoopReturned =>
            LET N == Len(evaluation_data)
                file == fs[results_filepath]
            IN /\ iteration = test_time
               /\ gens = test_time * N - loaded
               /\ firstGen = (IF gens = 0 THEN -1 ELSE loaded)
               /\ Len(file) = test_time * N
               /\ prov[results_filepath] = [j \in 1..(test_time * N) |-> <<(j - 1) % N, (j - 1) \div N>>]
               /\ \A j \in 1..(test_time * N) :
                    json_loads(file[j])["question"] = heap[evaluation_data[((j - 1) % N) + 1]]["question"])

\* a loop that was entered with records of a part of the first iteration has
\* returned after generating into the second iteration
C24_Witness ==
    /\ LoopReturned /\ test_time = 2
    /\ 0 < loaded /\ loaded < Len(evaluation_data) /\ gens > Len(evaluation_data)

(* ================= properties of the records in memory ================= *)
\* C25 (as claimed): while a task1/task2/student loop runs, a step changes no
\* record that is in evaluation_results
C25_RecordsNeverMutated ==
    [][(pc = "loop" /\ pc' = "loop") =>
          \A j \in 1..Len(evaluation_results) :
              /\ evaluation_results'[j] = evaluation_results[j]
              /\ heap'[evaluation_results[j]] = heap[evaluation_results[j]]]_vars

\* what holds of them: the list only grows, and a record loaded from the file
\* (not generated by this run) is never changed
LoadedRecordsNeverMutated ==
    [][(pc = "loop" /\ pc' = "loop") =>
          /\ SubSeq(evaluation_results', 1, Len(evaluation_results)) = evaluation_results
          /\ \A j \in 1..loaded :
                heap'[evaluation_results[j]] = heap[evaluation_results[j]]]_vars

(* ===================== properties of task3's files ===================== *)
Task3Dataset == load_jsonl(fs[Task3Data])

\* C26 (as claimed): over any sequence of Stage A runs, the knowledge file
\* holds at most one record per sample of the dataset, and its line at
\* position i was made for sample i and holds that sample's question
C26_KnowledgeFileBySamplePosition ==
    entry = "task3" =>
        /\ Len(fs[KnowledgeFile]) <= Len(Task3Dataset)
        /\ \A i \in 1..Len(fs[KnowledgeFile]) : \A j \in 1..Len(fs[KnowledgeFile]) :
              prov[KnowledgeFile][i][1] = prov[KnowledgeFile][j][1] => i = j
        /\ \A i \in 0..(Len(fs[KnowledgeFile]) - 1) :
              /\ prov[KnowledgeFile][i + 1] = <<i, 0>>
              /\ json_loads(fs[KnowledgeFile][i + 1])["question"] = Task3Dataset[i + 1]["question"]

\* what holds of the file: it never has more lines than the dataset has
\* samples, each line is the record of the sample it was made for, and within
\* the lines one run appended the samples are in increasing order
KnowledgeFileHoldsRecords ==
    entry = "task3" =>
        /\ Len(fs[KnowledgeFile]) <= Len(Task3Dataset)
        /\ Len(prov[KnowledgeFile]) = Len(fs[KnowledgeFile])
        /\ \A i \in 1..Len(fs[KnowledgeFile]) :
              LET record == json_loads(fs[KnowledgeFile][i])
                  made_for == prov[KnowledgeFile][i][1]
              IN /\ made_for >= i - 1
                 /\ record["question"] = Task3Dataset[made_for + 1]["question"]
                 /\ record["knowledge"] = extract_last_knowledge_object(record["response"])

\* Stage A of this run has returned its list
StageAReturned == entry = "task3" /\ pc \in {"students", "loop", "done", "aborted"}
\* the line at position i of the student's file is the record of sample
\* i mod N in iteration i div N of Stage A's list
FollowsStageA(file) ==
    LET N == Len(knowledge_results)
    IN \A i \in 0..(Len(fs[file]) - 1) :
          /\ prov[file][i + 1] = <<i % N, i \div N>>
          /\ json_loads(fs[file][i + 1])["question"] = heap[knowledge_results[(i % N) + 1]]["question"]

\* C27 (as claimed): over any sequence of task3 runs, once Stage A of the
\* latest run has returned N > 0 records, every student's file follows them
C27_StudentFilesFollowStageA ==
    (StageAReturned /\ Len(knowledge_results) > 0) =>
        \A s \in 1..Len(Roster) : FollowsStageA(StudentFile(Roster[s]))

\* what holds: a student's file follows Stage A's list if every loop that
\* wrote to it was given that same list
StudentFilesFollowUnchangedStageA ==
    (StageAReturned /\ Len(knowledge_results) > 0) =>
        \A s \in 1..Len(Roster) :
            dataSeen[StudentFile(Roster[s])] \subseteq {Deref(heap, knowledge_results)}
                => FollowsStageA(StudentFile(Roster[s]))

(* ================== memory and file, record by record ================== *)
\* the lines of the file that are one record each
RecordsInFile(file) ==
    Cardinality({i \in 1..Len(file) : IsDamaged(file[i]) => file[i].torn = "unterminated"})

\* C28 (as claimed): between two samples of a loop, the list in memory has as
\* many records as the output file
C28_MemoryCountIsFileCount ==
    /\ pc = "loop" => Len(evaluation_results) = RecordsInFile(fs[results_filepath])
    /\ pc = "stageA" => Len(knowledge_results) = RecordsInFile(fs[KnowledgeFile])

\* what holds: the counts agree as long as no write to the file has stopped
\* part way, and a sample that fails before its append changes neither
MemoryCountIsFileCountOnWholeLines ==
    /\ (pc = "loop" /\ NoDamagedLine(fs[results_filepath])) =>
            Len(evaluation_results) = Len(fs[results_filepath])
    /\ (pc = "stageA" /\ NoDamagedLine(fs[KnowledgeFile])) =>
            Len(knowledge_results) = Len(fs[KnowledgeFile])

(* ================== main: task1, task2, task3 in one process =========== *)
\* mutant: task3 is run before task2
NextTaskTask3Early(e) ==
    CASE e = "task1" -> "task3" [] e = "task3" -> "task2" [] e = "task2" -> "none"
\* results_task1, results_task2, results_task3 are computed in this order
NextTask(e) ==
    CASE e = "task1" -> "task2" [] e = "task2" -> "task3" [] e = "task3" -> "none"

\* the three datasets are in place, the output files are empty, and main has
\* constructed the model it hands to the three tasks
InitMain ==
    /\ entry = "task1"
    /\ test_time \in 1..MaxTestTime
    /\ sampling \in BOOLEAN
    /\ \E n1 \in 1..MaxSamples, n2 \in 1..MaxSamples, n3 \in 1..MaxSamples :
          fs = [f \in Files |->
                  CASE f = Task1Data -> DatasetFile("task1", n1)
                    [] f = Task2Data -> DatasetFile("task2", n2)
                    [] f = Task3Data -> DatasetFile("task3", n3)
                    [] OTHER -> <<>>]
    /\ memo = {} /\ pc = "idle" /\ chats = 0 /\ heap = <<>>
    /\ evaluation_data = <<>> /\ evaluation_results = <<>>
    /\ results_filepath = NoFile /\ iteration = 0 /\ sample_idx = 0
    /\ score = <<>> /\ knowledge_results = <<>> /\ student = 0
    /\ accuracy_scores = <<>> /\ result = <<>> /\ device = {"teacher"}
    /\ prov = [f \in Files |-> <<>>] /\ loaded = 0 /\ gens = 0 /\ firstGen = -1
    /\ attempted = {} /\ failed = {} /\ prevFailed = {} /\ failedAt = NoFail
    /\ studentLog = <<>> /\ dataSeen = [f \in Files |-> {}] /\ wasCut = FALSE
    /\ released = {}
    /\ dataset_exists = TRUE /\ faults = 0 /\ ioError = NoError /\ tornAt = NotTorn
    /\ fn = "none" /\ args = <<>> /\ parts = <<>> /\ returned = NotCalled
    /\ disk = Missing /\ appended = 0 /\ torn = NoTorn

\* a task has returned its scores to main, which calls the next one with the
\* same model
MainReturn ==
    /\ pc = "done" /\ NextTask(entry) # "none"
    /\ entry' = NextTask(entry)
    /\ pc' = "idle"
    /\ UNCHANGED <<test_time, sampling, unitVars, faultVars, dataSeen, wasCut, released, memo, fs,
                   chats, heap, evaluation_data, evaluation_results, results_filepath,
                   iteration, sample_idx, score, task3Vars, device, prov, loaded, gens,
                   firstGen, stageAHist, failedAt, studentLog>>

\* main ends, after the last task or by an uncaught exception, and the
\* command is run again: a new process, a new model, the files as they are
MainExit ==
    /\ pc = "aborted" \/ (pc = "done" /\ NextTask(entry) = "none")
    /\ entry' = "task1"
    /\ pc' = "idle"
    /\ heap' = <<>>
    /\ evaluation_data' = <<>>
    /\ evaluation_results' = <<>>
    /\ results_filepath' = NoFile
    /\ iteration' = 0
    /\ sample_idx' = 0
    /\ score' = <<>>
    /\ knowledge_results' = <<>>
    /\ student' = 0
    /\ accuracy_scores' = <<>>
    /\ result' = <<>>
    /\ device' = {"teacher"}
    /\ released' = {}
    /\ loaded' = 0
    /\ gens' = 0
    /\ firstGen' = -1
    /\ studentLog' = <<>>
    /\ failedAt' = IF failedAt = NoFail \/ failedAt.old THEN NoFail
                   ELSE [failedAt EXCEPT !.old = TRUE]
    /\ UNCHANGED <<test_time, sampling, unitVars, faultVars, dataSeen, wasCut, memo, fs, chats,
                   prov, stageAHist>>

NextMain ==
    \/ StartTask1 \/ StartTask2
    \/ LoopSkip \/ LoopGenerate \/ LoopFail \/ LoopNextIteration
    \/ FinishTask1 \/ FinishTask2
    \/ StageAStart \/ StageASkip \/ StageAGenerate \/ StageAFail \/ StageAReturn
    \/ ReleaseTeacher \/ StudentStart \/ StudentFinish \/ Task3Return
    \/ MainReturn \/ MainExit

SpecMain == InitMain /\ [][NextMain]_vars

\* the backend the step calls model.chat on
ChatBackend == IF pc = "loop" THEN LoopBackend ELSE "teacher"
\* the loop of the task has run through in this process or in an earlier one
OutputComplete(path, data) == Len(fs[path]) >= test_time * Len(data)

\* C29: in a run of main, no step calls model.chat on a backend the process
\* has released; the teacher is released only in task3 after Stage A has
\* returned, when the loops of task1 and task2 have run through; a student is
\* released only when its loop has returned
C29_NoChatAfterRelease ==
    /\ [][chats' = chats + 1 => ChatBackend \notin released]_vars
    /\ []("teacher" \in released =>
            /\ entry = "task3" /\ pc \in {"students", "loop", "done", "aborted"}
            /\ OutputComplete(Task1Out, load_jsonl(fs[Task1Data]))
            /\ OutputComplete(Task2Out, FlattenTask2(load_jsonl(fs[Task2Data]))))
    /\ [](\A s \in 1..Len(Roster) :
            Roster[s] \in released =>
                /\ student > s
                /\ OutputComplete(StudentFile(Roster[s]), knowledge_results))

\* the second student is generating, the teacher and the first student
\* having been released after task1, task2 and Stage A generated
C29_Witness ==
    /\ entry = "task3" /\ pc = "loop" /\ student = 2 /\ gens > 0
    /\ released = {"teacher", Roster[1]}
    /\ Len(fs[Task1Out]) > 0 /\ Len(fs[Task2Out]) > 0 /\ Len(fs[KnowledgeFile]) > 0
====
